---- MODULE Spec2Model ----
(***************************************************************************)
(* Model of django-service-urls: the scheme registry (Service), the URL    *)
(* parser (parse_url) and the typed query-string parser.                   *)
(*                                                                         *)
(* Python strings are sequences of one-character strings.  Python values   *)
(* are records tagged by a field t ("str", "int", "bool", "none", "list",  *)
(* "dict"); a dict is an insertion-ordered sequence of <<key, value>>.     *)
(***************************************************************************)
EXTENDS Integers, Sequences, FiniteSets, TLC

\* ------------------------------------------------------------------------
\* Characters
\* ------------------------------------------------------------------------
LowerAlpha == <<"a","b","c","d","e","f","g","h","i","j","k","l","m",
                "n","o","p","q","r","s","t","u","v","w","x","y","z">>

UpperAlpha == <<"A","B","C","D","E","F","G","H","I","J","K","L","M",
                "N","O","P","Q","R","S","T","U","V","W","X","Y","Z">>

Digits == <<"0","1","2","3","4","5","6","7","8","9">>

Range(s) == { s[i] : i \in DOMAIN s }

IsAlpha(c) == c \in Range(LowerAlpha) \cup Range(UpperAlpha)

IsDigit(c) == c \in Range(Digits)

\* str.lower() on one character
LowerChar(c) ==
    IF c \in Range(UpperAlpha)
    THEN LowerAlpha[CHOOSE i \in DOMAIN UpperAlpha : UpperAlpha[i] = c]
    ELSE c

\* str.lower()
Lower(s) == [i \in DOMAIN s |-> LowerChar(s[i])]

\* ------------------------------------------------------------------------
\* String primitives (1-based; 0 stands for Python's -1 "not found")
\* ------------------------------------------------------------------------
\* s.find(c) restricted to positions >= start
FindFrom(s, c, start) ==
    IF \E i \in start..Len(s) : s[i] = c
    THEN CHOOSE i \in start..Len(s) : s[i] = c /\ \A j \in start..(i-1) : s[j] # c
    ELSE 0

Find(s, c) == FindFrom(s, c, 1)

\* s.rfind(c)
RFind(s, c) ==
    IF \E i \in DOMAIN s : s[i] = c
    THEN CHOOSE i \in DOMAIN s : s[i] = c /\ \A j \in (i+1)..Len(s) : s[j] # c
    ELSE 0

Contains(s, c) == \E i \in DOMAIN s : s[i] = c

\* s[i:] with a 1-based first index
From(s, i) == SubSeq(s, i, Len(s))

\* s.partition(c) = (head, sep found?, tail)
Partition(s, c) ==
    LET i == Find(s, c)
    IN  IF i = 0 THEN [head |-> s, found |-> FALSE, tail |-> <<>>]
        ELSE [head |-> SubSeq(s, 1, i-1), found |-> TRUE, tail |-> From(s, i+1)]

\* s.rpartition(c) = (head, sep found?, tail)
RPartition(s, c) ==
    LET i == RFind(s, c)
    IN  IF i = 0 THEN [head |-> <<>>, found |-> FALSE, tail |-> s]
        ELSE [head |-> SubSeq(s, 1, i-1), found |-> TRUE, tail |-> From(s, i+1)]

\* s.split(c): the list of the pieces between the occurrences of c
RECURSIVE Split(_, _)
Split(s, c) ==
    LET i == Find(s, c)
    IN  IF i = 0 THEN <<s>>
        ELSE <<SubSeq(s, 1, i-1)>> \o Split(From(s, i+1), c)

\* t occurs in s as a contiguous substring
IsSubstring(t, s) ==
    \E i \in 1..(Len(s) - Len(t) + 1) : SubSeq(s, i, i + Len(t) - 1) = t

\* whitespace and control characters of the model's alphabet
Space == " "
Tab == "\t"

\* ------------------------------------------------------------------------
\* urllib.parse.urlsplit, as called by Service._parse and parse_url
\* ------------------------------------------------------------------------
\* url.lstrip(_WHATWG_C0_CONTROL_OR_SPACE)
RECURSIVE LStrip(_)
LStrip(s) ==
    IF s # <<>> /\ s[1] \in {Space, Tab} THEN LStrip(Tail(s)) ELSE s

\* url.replace(b, "") for the unsafe bytes (tab, CR, LF)
RemoveUnsafe(s) == SelectSeq(s, LAMBDA c : c # Tab)

SchemeChars == Range(LowerAlpha) \cup Range(UpperAlpha) \cup Range(Digits) \cup {"+", "-", "."}

HexDigits == Range(Digits) \cup {"a","b","c","d","e","f","A","B","C","D","E","F"}

\* _splitnetloc(url, 2): the end of the netloc is the first of '/', '?', '#'
NetlocEnd(url) ==
    LET ds == { i \in 3..Len(url) : url[i] \in {"/", "?", "#"} }
    IN  IF ds = {} THEN Len(url) + 1
        ELSE CHOOSE i \in ds : \A j \in ds : i <= j

\* one group of an IPv6 address: 1 to 4 hex digits
IsHexGroup(g) == Len(g) \in 1..4 /\ \A i \in DOMAIN g : g[i] \in HexDigits

\* ipaddress.IPv6Address(h) accepts h (hex groups and one optional '::';
\* an optional %zone suffix), without an embedded dotted quad
IsIPv6(h) ==
    LET zone  == Partition(h, "%")
        addr  == zone.head
        parts == Split(addr, ":")
        n     == Len(parts)
        empt  == { i \in 1..n : parts[i] = <<>> }
        inner == { i \in empt : 1 < i /\ i < n }
    IN  /\ (zone.found => zone.tail # <<>> /\ ~Contains(zone.tail, "%"))
        /\ n >= 3
        /\ \A i \in 1..n : parts[i] = <<>> \/ IsHexGroup(parts[i])
        /\ Cardinality(inner) <= 1
        /\ (1 \in empt => 2 \in empt)
        /\ (n \in empt => (n-1) \in empt)
        /\ IF inner = {}
           THEN n = 8 /\ empt = {}
           ELSE n - Cardinality(empt) <= 7

\* _check_bracketed_host(hostname) raises ValueError
BracketedHostInvalid(h) ==
    IF h # <<>> /\ h[1] = "v"
    THEN \* not re.match(r"\Av[a-fA-F0-9]+\..+\Z", hostname)
         LET dot == Find(h, ".")
         IN  ~(/\ dot >= 3
               /\ \A i \in 2..(dot-1) : h[i] \in HexDigits
               /\ dot < Len(h))
    ELSE ~IsIPv6(h)

\* urlsplit(url): [ok, scheme, netloc, path, query, fragment]; ok = FALSE
\* stands for the ValueError urlsplit raises
urlsplit(u) ==
    LET url0 == RemoveUnsafe(LStrip(u))
        i    == Find(url0, ":")
        hasScheme == /\ i > 1
                     /\ IsAlpha(url0[1])
                     /\ \A j \in 1..(i-1) : url0[j] \in SchemeChars
        scheme == IF hasScheme THEN Lower(SubSeq(url0, 1, i-1)) ELSE <<>>
        url1   == IF hasScheme THEN From(url0, i+1) ELSE url0
        hasNetloc == Len(url1) >= 2 /\ url1[1] = "/" /\ url1[2] = "/"
        delim  == NetlocEnd(url1)
        netloc == IF hasNetloc THEN SubSeq(url1, 3, delim - 1) ELSE <<>>
        url2   == IF hasNetloc THEN From(url1, delim) ELSE url1
        badBrackets ==
            \/ Contains(netloc, "[") /\ ~Contains(netloc, "]")
            \/ Contains(netloc, "]") /\ ~Contains(netloc, "[")
            \/ /\ Contains(netloc, "[") /\ Contains(netloc, "]")
               /\ BracketedHostInvalid(Partition(Partition(netloc, "[").tail, "]").head)
        f      == Partition(url2, "#")
        q      == Partition(f.head, "?")
    IN  [ok       |-> ~(hasNetloc /\ badBrackets),
         scheme   |-> scheme,
         netloc   |-> netloc,
         path     |-> q.head,
         query    |-> q.tail,
         fragment |-> f.tail]

\* ------------------------------------------------------------------------
\* Python values
\* ------------------------------------------------------------------------
VStr(s) == [t |-> "str", s |-> s]

VInt(n) == [t |-> "int", n |-> n]

VBool(b) == [t |-> "bool", b |-> b]

VNone == [t |-> "none"]

VList(xs) == [t |-> "list", xs |-> xs]

\* a dict: items is the insertion-ordered item list, id the object's
\* identity; id 0 is an object allocated by the running call, the objects the
\* caller passes in have ids >= 1
DictObj(id, items) == [t |-> "dict", id |-> id, items |-> items]

VDict(items) == DictObj(0, items)

IsDict(v) == v.t = "dict"

\* Python truthiness of a value
Truthy(v) ==
    CASE v.t = "str"  -> v.s # <<>>
      [] v.t = "int"  -> v.n # 0
      [] v.t = "bool" -> v.b
      [] v.t = "none" -> FALSE
      [] v.t = "list" -> v.xs # <<>>
      [] v.t = "dict" -> v.items # <<>>
      [] OTHER        -> TRUE

\* dict operations on an item list
DictKeys(items) == [i \in DOMAIN items |-> items[i][1]]

DictHas(items, k) == \E i \in DOMAIN items : items[i][1] = k

DictGet(items, k) == items[CHOOSE i \in DOMAIN items : items[i][1] = k][2]

\* d[k] = v: an existing key keeps its position, a new key goes last
DictSet(items, k, v) ==
    IF DictHas(items, k)
    THEN [i \in DOMAIN items |-> IF items[i][1] = k THEN <<k, v>> ELSE items[i]]
    ELSE Append(items, <<k, v>>)

\* d.pop(k)
DictDel(items, k) == SelectSeq(items, LAMBDA it : it[1] # k)

\* ------------------------------------------------------------------------
\* urllib.parse.unquote
\* ------------------------------------------------------------------------
\* the printable ASCII characters, code points 32..126 ("<grave>" stands for
\* the grave accent, code point 96)
Ascii == <<" ","!","\"","#","$","%","&","'","(",")","*","+",",","-",".","/",
           "0","1","2","3","4","5","6","7","8","9",":",";","<","=",">","?",
           "@","A","B","C","D","E","F","G","H","I","J","K","L","M","N","O",
           "P","Q","R","S","T","U","V","W","X","Y","Z","[","\\","]","^","_",
           "<grave>","a","b","c","d","e","f","g","h","i","j","k","l","m","n","o",
           "p","q","r","s","t","u","v","w","x","y","z","{","|","}","~">>

\* what a byte outside printable ASCII (and tab) decodes to
ReplacementChar == "<?>"

HexVal(c) ==
    CASE c \in Range(Digits) -> (CHOOSE i \in DOMAIN Digits : Digits[i] = c) - 1
      [] c \in {"a","A"} -> 10
      [] c \in {"b","B"} -> 11
      [] c \in {"c","C"} -> 12
      [] c \in {"d","D"} -> 13
      [] c \in {"e","E"} -> 14
      [] c \in {"f","F"} -> 15

ByteChar(v) ==
    IF v >= 32 /\ v <= 126 THEN Ascii[v - 31]
    ELSE IF v = 9 THEN Tab
    ELSE ReplacementChar

\* unquote(s): every %XX with two hex digits is decoded, once, left to
\* right; any other '%' is kept literally
RECURSIVE unquote(_)
unquote(s) ==
    IF s = <<>> THEN <<>>
    ELSE IF s[1] = "%" /\ Len(s) >= 3 /\ s[2] \in HexDigits /\ s[3] \in HexDigits
         THEN <<ByteChar(16 * HexVal(s[2]) + HexVal(s[3]))>> \o unquote(From(s, 4))
         ELSE <<s[1]>> \o unquote(Tail(s))

\* ------------------------------------------------------------------------
\* int(str)
\* ------------------------------------------------------------------------
RECURSIVE RStrip(_)
RStrip(s) ==
    IF s # <<>> /\ s[Len(s)] \in {Space, Tab} THEN RStrip(SubSeq(s, 1, Len(s) - 1)) ELSE s

RECURSIVE DigitsValue(_)
DigitsValue(ds) ==
    IF ds = <<>> THEN 0
    ELSE 10 * DigitsValue(SubSeq(ds, 1, Len(ds) - 1)) + HexVal(ds[Len(ds)])

\* int(s) in base 10: surrounding whitespace, one optional sign, digits
\* with single underscores between digits; ok = FALSE is ValueError
PyInt(s) ==
    LET body == RStrip(LStrip(s))
        signed == body # <<>> /\ body[1] \in {"+", "-"}
        mag  == IF signed THEN Tail(body) ELSE body
        wellFormed ==
            /\ mag # <<>>
            /\ \A i \in DOMAIN mag : IsDigit(mag[i]) \/ mag[i] = "_"
            /\ IsDigit(mag[1]) /\ IsDigit(mag[Len(mag)])
            /\ \A i \in 1..(Len(mag) - 1) : ~(mag[i] = "_" /\ mag[i+1] = "_")
        val  == DigitsValue(SelectSeq(mag, IsDigit))
    IN  IF wellFormed
        THEN [ok |-> TRUE, n |-> IF signed /\ body[1] = "-" THEN 0 - val ELSE val]
        ELSE [ok |-> FALSE, n |-> 0]

\* ------------------------------------------------------------------------
\* parse.py: typed query-string parsing
\* ------------------------------------------------------------------------
S_true == <<"t","r","u","e">>
S_yes == <<"y","e","s">>
S_false == <<"f","a","l","s","e">>
S_no == <<"n","o">>
S_null == <<"n","u","l","l">>

\* _cast_value as it would be if the string it falls back to were the
\* lowercased one
_cast_value_lowered(value) ==
    LET low == Lower(value)
    IN  IF low \in {S_true, <<"t">>, <<"1">>, S_yes, <<"y">>} THEN VBool(TRUE)
        ELSE IF low \in {S_false, <<"f">>, <<"0">>, S_no, <<"n">>} THEN VBool(FALSE)
        ELSE IF low = S_null THEN VNone
        ELSE IF PyInt(value).ok THEN VInt(PyInt(value).n)
        ELSE VStr(low)

\* _cast_value as it would be if int() were tried before the tokens
_cast_value_int_first(value) ==
    LET low == Lower(value)
    IN  IF PyInt(value).ok THEN VInt(PyInt(value).n)
        ELSE IF low \in {S_true, <<"t">>, <<"1">>, S_yes, <<"y">>} THEN VBool(TRUE)
        ELSE IF low \in {S_false, <<"f">>, <<"0">>, S_no, <<"n">>} THEN VBool(FALSE)
        ELSE IF low = S_null THEN VNone
        ELSE VStr(value)

_cast_value(value) ==
    LET low == Lower(value)
    IN  IF low \in {S_true, <<"t">>, <<"1">>, S_yes, <<"y">>} THEN VBool(TRUE)
        ELSE IF low \in {S_false, <<"f">>, <<"0">>, S_no, <<"n">>} THEN VBool(FALSE)
        ELSE IF low = S_null THEN VNone
        ELSE IF PyInt(value).ok THEN VInt(PyInt(value).n)
        ELSE VStr(value)

RECURSIVE _set_nested_option_fresh(_, _, _)
\* _set_nested_option as it would be if every dotted key started a nested
\* mapping of its own instead of descending into the one already there
_set_nested_option_fresh(options, parts, value) ==
    IF Len(parts) = 1 THEN DictSet(options, parts[1], value)
    ELSE DictSet(options, parts[1], VDict(_set_nested_option_fresh(<<>>, Tail(parts), value)))

RECURSIVE _set_nested_option(_, _, _)
\* options after _set_nested_option(options, key, value); parts = key.split(".")
_set_nested_option(options, parts, value) ==
    IF Len(parts) = 1 THEN DictSet(options, parts[1], value)
    ELSE LET part == parts[1]
             current == IF DictHas(options, part) /\ IsDict(DictGet(options, part))
                        THEN DictGet(options, part).items
                        ELSE <<>>
         IN  DictSet(options, part, VDict(_set_nested_option(current, Tail(parts), value)))

\* name.replace('+', ' ')
PlusToSpace(s) == [i \in DOMAIN s |-> IF s[i] = "+" THEN Space ELSE s[i]]

\* urllib.parse.parse_qsl(qs, keep_blank_values=True): list of <<name, value>>
parse_qsl(qs) ==
    LET args == IF qs = <<>> THEN <<>> ELSE SelectSeq(Split(qs, "&"), LAMBDA nv : nv # <<>>)
    IN  [i \in DOMAIN args |->
            LET nv == Partition(args[i], "=")
            IN  <<unquote(PlusToSpace(nv.head)), unquote(PlusToSpace(nv.tail))>>]

RECURSIVE GroupPairs(_, _)
\* parse_qs: names in order of first occurrence, each with its value list
GroupPairs(pairs, acc) ==
    IF pairs = <<>> THEN acc
    ELSE LET name == pairs[1][1]
             val  == pairs[1][2]
         IN  GroupPairs(Tail(pairs),
                 IF DictHas(acc, name)
                 THEN DictSet(acc, name, Append(DictGet(acc, name), val))
                 ELSE Append(acc, <<name, <<val>> >>))

parse_qs(qs) == GroupPairs(parse_qsl(qs), <<>>)

RECURSIVE QsLoop_flat_sticks(_, _)
\* the loop as it would be if a dotted key never replaced a flat value
QsLoop_flat_sticks(parsed_data, result) ==
    IF parsed_data = <<>> THEN result
    ELSE LET key    == parsed_data[1][1]
             values == parsed_data[1][2]
             processed_value ==
                 IF Len(values) > 1
                 THEN VList([i \in DOMAIN values |-> _cast_value(values[i])])
                 ELSE _cast_value(values[Len(values)])
         IN  QsLoop_flat_sticks(Tail(parsed_data),
                 IF Contains(key, ".") /\ DictHas(result, Split(key, ".")[1])
                                       /\ ~IsDict(DictGet(result, Split(key, ".")[1]))
                 THEN result
                 ELSE IF Contains(key, ".")
                 THEN _set_nested_option(result, Split(key, "."), processed_value)
                 ELSE DictSet(result, key, processed_value))

RECURSIVE QsLoop_last_value(_, _)
\* the loop as it would be if a repeated key kept its last value only
QsLoop_last_value(parsed_data, result) ==
    IF parsed_data = <<>> THEN result
    ELSE LET key    == parsed_data[1][1]
             values == parsed_data[1][2]
             processed_value == _cast_value(values[Len(values)])
         IN  QsLoop_last_value(Tail(parsed_data),
                 IF Contains(key, ".")
                 THEN _set_nested_option(result, Split(key, "."), processed_value)
                 ELSE DictSet(result, key, processed_value))

RECURSIVE QsLoop(_, _)
\* the loop of _parse_querystring over parsed_data.items()
QsLoop(parsed_data, result) ==
    IF parsed_data = <<>> THEN result
    ELSE LET key    == parsed_data[1][1]
             values == parsed_data[1][2]
             processed_value ==
                 IF Len(values) > 1
                 THEN VList([i \in DOMAIN values |-> _cast_value(values[i])])
                 ELSE _cast_value(values[Len(values)])
         IN  QsLoop(Tail(parsed_data),
                 IF Contains(key, ".")
                 THEN _set_nested_option(result, Split(key, "."), processed_value)
                 ELSE DictSet(result, key, processed_value))

\* _parse_querystring(data): the item list of the resulting dict
_parse_querystring(data) == QsLoop(parse_qs(data), <<>>)

\* ------------------------------------------------------------------------
\* parse.py: _get_host_and_port, UrlInfo, parse_url
\* ------------------------------------------------------------------------
\* _get_host_and_port as it would be if the credentials ended at the first @
_get_host_and_port_first_at(netloc) ==
    LET at        == Partition(netloc, "@")
        hostinfo  == IF at.found THEN at.tail ELSE netloc
        br        == Partition(hostinfo, "[")
        closing   == Partition(br.tail, "]")
        plain     == Partition(hostinfo, ":")
        hostname  == IF br.found THEN closing.head ELSE plain.head
        port      == IF br.found THEN Partition(closing.tail, ":").tail ELSE plain.tail
    IN  [ok       |-> port = <<>> \/ PyInt(port).ok,
         hostname |-> hostname,
         port     |-> IF port = <<>> \/ ~PyInt(port).ok THEN VNone ELSE VInt(PyInt(port).n)]

\* _get_host_and_port(netloc): ok = FALSE is the ValueError of int(port);
\* port is VNone or VInt
_get_host_and_port(netloc) ==
    LET hostinfo  == RPartition(netloc, "@").tail
        br        == Partition(hostinfo, "[")
        closing   == Partition(br.tail, "]")
        plain     == Partition(hostinfo, ":")
        hostname  == IF br.found THEN closing.head ELSE plain.head
        port      == IF br.found THEN Partition(closing.tail, ":").tail ELSE plain.tail
    IN  [ok       |-> port = <<>> \/ PyInt(port).ok,
         hostname |-> hostname,
         port     |-> IF port = <<>> \/ ~PyInt(port).ok THEN VNone ELSE VInt(PyInt(port).n)]

\* SplitResult.username / SplitResult.password (urllib _userinfo)
_userinfo(netloc) ==
    LET at == RPartition(netloc, "@")
        up == Partition(at.head, ":")
    IN  [username |-> IF at.found THEN VStr(up.head) ELSE VNone,
         password |-> IF at.found /\ up.found THEN VStr(up.tail) ELSE VNone]

\* parse.unquote(x) if x else x, for x a str or None
UnquoteIf(v) == IF Truthy(v) THEN VStr(unquote(v.s)) ELSE v

\* UrlInfo(): the dataclass defaults
UrlInfoDefault ==
    [scheme   |-> <<>>,
     username |-> VNone,
     password |-> VNone,
     hostname |-> VNone,
     port     |-> VNone,
     path     |-> <<>>,
     fullpath |-> <<>>,
     query    |-> <<>>,
     location |-> VStr(<<>>),
     fragment |-> <<>>]

\* the UrlInfo(...) that parse_url returns, from the urlsplit result, the
\* netlocs list, (hostname, port) and the user information; ok = FALSE is the
\* ValueError raised by urlsplit or by int(port)
UrlInfoFields(parsed, netlocs, hp, ui) ==
    IF ~parsed.ok \/ ~hp.ok
    THEN [ok |-> FALSE, info |-> UrlInfoDefault]
    ELSE [ok |-> TRUE,
          info |->
            [scheme   |-> parsed.scheme,
             username |-> UnquoteIf(ui.username),
             password |-> UnquoteIf(ui.password),
             hostname |-> UnquoteIf(hp.hostname),
             port     |-> hp.port,
             path     |-> IF parsed.path # <<>> THEN unquote(Tail(parsed.path)) ELSE <<>>,
             fullpath |-> unquote(parsed.path),
             query    |-> _parse_querystring(parsed.query),
             location |-> IF Len(netlocs) > 1
                          THEN VList([i \in DOMAIN netlocs |-> VStr(netlocs[i])])
                          ELSE VStr(parsed.netloc),
             fragment |-> _parse_querystring(parsed.fragment)]]

\* (hostname, port) as parse_url stores them
HostPort(r) == [ok |-> r.ok, hostname |-> VStr(r.hostname), port |-> r.port]

\* parse_url(url, multiple_netloc) for url a string, after
\* parsed = urlsplit(url): [ok, info], info the fields of the new UrlInfo
ParseUrlString(parsed, multiple_netloc) ==
    LET netlocs == IF multiple_netloc THEN Split(parsed.netloc, ",") ELSE <<>>
    IN  UrlInfoFields(parsed, netlocs,
                      IF Len(netlocs) > 1
                      THEN [ok |-> TRUE, hostname |-> VNone, port |-> VNone]
                      ELSE HostPort(_get_host_and_port(parsed.netloc)),
                      _userinfo(parsed.netloc))

\* ------------------------------------------------------------------------
\* exceptions.py: ValidationError
\* ------------------------------------------------------------------------
\* a ValidationError instance: which of the attributes message / error_dict
\* were set by __init__, and their values
ValidationErrorObj(has_message, message, has_error_dict, error_dict) ==
    [t |-> "ValidationError",
     has_message |-> has_message, message |-> message,
     has_error_dict |-> has_error_dict, error_dict |-> error_dict]

OtherError(cls) == [t |-> cls]

IsValidationError(e) == e.t = "ValidationError"

RECURSIVE ErrorDictLoop(_, _)
\* the loop of ValidationError.__init__ over message.items(); ok = FALSE is
\* the AttributeError of value.message on an instance without that attribute
ErrorDictLoop(items, acc) ==
    IF items = <<>> THEN [ok |-> TRUE, error_dict |-> acc]
    ELSE LET key   == items[1][1]
             value == items[1][2]
         IN  IF IsValidationError(value)
             THEN IF value.has_message
                  THEN ErrorDictLoop(Tail(items), DictSet(acc, key, value.message))
                  ELSE [ok |-> FALSE, error_dict |-> acc]
             ELSE ErrorDictLoop(Tail(items), DictSet(acc, key, value))

\* ValidationError(message): [ok, exc]; with ok = FALSE exc is the
\* exception that escapes the constructor
ValidationError(message) ==
    IF IsValidationError(message)
    THEN IF message.has_error_dict
         THEN [ok |-> TRUE, exc |-> ValidationErrorObj(FALSE, VNone, TRUE, message.error_dict)]
         ELSE IF message.has_message
              THEN [ok |-> TRUE, exc |-> ValidationErrorObj(TRUE, message.message, FALSE, <<>>)]
              ELSE [ok |-> FALSE, exc |-> OtherError("AttributeError")]
    ELSE IF IsDict(message)
    THEN LET r == ErrorDictLoop(message.items, <<>>)
         IN  IF r.ok
             THEN [ok |-> TRUE, exc |-> ValidationErrorObj(FALSE, VNone, TRUE, r.error_dict)]
             ELSE [ok |-> FALSE, exc |-> OtherError("AttributeError")]
    ELSE IF message.t = "str"
    THEN [ok |-> TRUE, exc |-> ValidationErrorObj(TRUE, message, FALSE, <<>>)]
    ELSE [ok |-> TRUE, exc |-> ValidationErrorObj(FALSE, VNone, FALSE, <<>>)]

\* ------------------------------------------------------------------------
\* Outcomes of a call
\* ------------------------------------------------------------------------
Return(v) == [kind |-> "return", value |-> v, exc |-> VNone]

Raise(e) == [kind |-> "raise", value |-> VNone, exc |-> e]

\* raise ValidationError(message)
RaiseValidationError(message) == Raise(ValidationError(message).exc)

\* repr(s) of a str: quoted, with the quote, backslash and tab escaped
Repr(s) ==
    LET q == IF Contains(s, "'") /\ ~Contains(s, "\"") THEN "\"" ELSE "'"
        Esc(c) == IF c = Tab THEN <<"\\", "t">>
                  ELSE IF c = "\\" \/ c = q THEN <<"\\", c>>
                  ELSE <<c>>
        RECURSIVE Body(_)
        Body(x) == IF x = <<>> THEN <<>> ELSE Esc(x[1]) \o Body(Tail(x))
    IN  <<q>> \o Body(s) \o <<q>>

\* f"{type(data)}"
TypeName(v) ==
    CASE v.t = "int"  -> "<class 'int'>"
      [] v.t = "bool" -> "<class 'bool'>"
      [] v.t = "none" -> "<class 'NoneType'>"
      [] v.t = "list" -> "<class 'list'>"
      [] v.t = "dict" -> "<class 'dict'>"
      [] v.t = "str"  -> "<class 'str'>"

\* ------------------------------------------------------------------------
\* parse.py: parse_url on the heap of UrlInfo objects
\* ------------------------------------------------------------------------
\* a reference to the UrlInfo object heap[id]
UrlInfoRef(id) == [t |-> "UrlInfo", id |-> id]

IsUrlInfo(v) == v.t = "UrlInfo"

\* parse_url as it would be if an already parsed UrlInfo were copied into a
\* new object instead of being returned
parse_url_copying(heap_, url, multiple_netloc) ==
    IF url.t = "UrlInfo"
    THEN [heap |-> Append(heap_, heap_[url.id]),
          out |-> [kind |-> "return", value |-> [t |-> "UrlInfo", id |-> Len(heap_) + 1], exc |-> VNone]]
    ELSE LET New(p) ==
                 IF ~p.ok
                 THEN [heap |-> heap_, out |-> [kind |-> "raise", value |-> VNone, exc |-> [t |-> "ValueError"]]]
                 ELSE [heap |-> Append(heap_, p.info),
                       out |-> [kind |-> "return", value |-> [t |-> "UrlInfo", id |-> Len(heap_) + 1], exc |-> VNone]]
         IN  New(ParseUrlString(urlsplit(url.s), multiple_netloc))

\* parse_url(url, multiple_netloc=...): [heap, out]; url is a str or a
\* reference to a UrlInfo; a new UrlInfo is allocated at the end of the heap
parse_url(heap_, url, multiple_netloc) ==
    IF IsUrlInfo(url)
    THEN [heap |-> heap_, out |-> Return(url)]
    ELSE LET New(p) ==
                 IF ~p.ok
                 THEN [heap |-> heap_, out |-> Raise(OtherError("ValueError"))]
                 ELSE [heap |-> Append(heap_, p.info), out |-> Return(UrlInfoRef(Len(heap_) + 1))]
         IN  New(ParseUrlString(urlsplit(url.s), multiple_netloc))

\* ------------------------------------------------------------------------
\* services: the config_from_url of the registries' classes
\* ------------------------------------------------------------------------
K_ENGINE == <<"E","N","G","I","N","E">>
K_NAME == <<"N","A","M","E">>
K_USER == <<"U","S","E","R">>
K_PASSWORD == <<"P","A","S","S","W","O","R","D">>
K_HOST == <<"H","O","S","T">>
K_PORT == <<"P","O","R","T">>
K_OPTIONS == <<"O","P","T","I","O","N","S">>

\* x or "" for x a str or None, then parse.unquote
UnquoteOrEmpty(v) == VStr(unquote(IF Truthy(v) THEN v.s ELSE <<>>))

RECURSIVE UpdateMissing(_, _)
\* config.update({k: v for k, v in fragment.items() if k not in config})
UpdateMissing(config, fragment) ==
    IF fragment = <<>> THEN config
    ELSE UpdateMissing(
             IF DictHas(config, fragment[1][1]) THEN config
             ELSE Append(config, fragment[1]),
             Tail(fragment))

\* DatabaseService.config_from_url on an already parsed UrlInfo
DatabaseConfig(engine, parsed) ==
    LET config == << <<K_ENGINE, VStr(engine)>>,
                     <<K_NAME, VStr(unquote(parsed.path))>>,
                     <<K_USER, UnquoteOrEmpty(parsed.username)>>,
                     <<K_PASSWORD, UnquoteOrEmpty(parsed.password)>>,
                     <<K_HOST, parsed.hostname>>,
                     <<K_PORT, IF Truthy(parsed.port) THEN parsed.port ELSE VStr(<<>>)>>,
                     <<K_OPTIONS, VDict(parsed.query)>> >>
    IN  VDict(UpdateMissing(config, parsed.fragment))

\* EmailService.config_from_url on an already parsed UrlInfo
EmailConfig(engine, parsed) == VDict(<< <<K_ENGINE, VStr(engine)>> >>)

\* the registries (module-level Service instances) of the model
Registries == {"db", "email"}

\* backend.config_from_url(engine, scheme, url) for url a string: the
\* outcome (a ValueError of parse_url escapes unchanged)
config_from_url(self, engine, scheme, url) ==
    LET Config(p) ==
            IF ~p.ok THEN Raise(OtherError("ValueError"))
            ELSE IF self = "db" THEN Return(DatabaseConfig(engine, p.info))
            ELSE Return(EmailConfig(engine, p.info))
    IN  Config(ParseUrlString(urlsplit(url), FALSE))

\* ------------------------------------------------------------------------
\* services: the builders and transforms of the five registries, applied to
\* a UrlInfo the caller holds (parse_url hands it back as it is)
\* ------------------------------------------------------------------------
RECURSIVE IntStr(_)
\* str(n) of an int
IntStr(n) ==
    IF n < 0 THEN <<"-">> \o IntStr(0 - n)
    ELSE IF n < 10 THEN <<Digits[n + 1]>>
    ELSE IntStr(n \div 10) \o <<Digits[(n % 10) + 1]>>

RECURSIVE PyStr(_)
\* str(v), as an f-string formats a cast value
PyStr(v) ==
    LET R(x) == IF x.t = "str" THEN Repr(x.s) ELSE PyStr(x)
        RECURSIVE Join(_)
        Join(parts) ==
            IF parts = <<>> THEN <<>>
            ELSE IF Len(parts) = 1 THEN parts[1]
            ELSE parts[1] \o <<",", " ">> \o Join(Tail(parts))
    IN  CASE v.t = "str"  -> v.s
          [] v.t = "int"  -> IntStr(v.n)
          [] v.t = "bool" -> IF v.b THEN <<"T","r","u","e">> ELSE <<"F","a","l","s","e">>
          [] v.t = "none" -> <<"N","o","n","e">>
          [] v.t = "list" -> <<"[">> \o Join([i \in DOMAIN v.xs |-> R(v.xs[i])]) \o <<"]">>
          [] v.t = "dict" ->
                <<"{">> \o Join([i \in DOMAIN v.items |->
                                   Repr(v.items[i][1]) \o <<":", " ">> \o R(v.items[i][2])])
                        \o <<"}">>

\* str.upper()
Upper(s) ==
    [i \in DOMAIN s |->
        IF s[i] \in Range(LowerAlpha)
        THEN UpperAlpha[CHOOSE j \in DOMAIN LowerAlpha : LowerAlpha[j] = s[i]]
        ELSE s[i]]

\* x or default
OrElse(v, default) == IF Truthy(v) THEN v ELSE default

\* d.get(k, default)
DictGetOr(items, k, default) == IF DictHas(items, k) THEN DictGet(items, k) ELSE default

RECURSIVE PromoteLoop_keeping(_, _, _)
\* the loop as it would be if it read the value (parsed.query[key]) and did
\* not pop it
PromoteLoop_keeping(keys, config, query) ==
    IF keys = <<>> THEN [config |-> config, query |-> query]
    ELSE IF DictHas(query, keys[1]) /\ ~IsDict(DictGet(query, keys[1]))
    THEN PromoteLoop_keeping(Tail(keys),
                     DictSet(config, Upper(keys[1]), DictGet(query, keys[1])),
                     query)
    ELSE PromoteLoop_keeping(Tail(keys), config, query)

RECURSIVE PromoteLoop(_, _, _)
\* the loop of CacheService.config_from_url over ("timeout", "key_prefix",
\* "version"): a value that is no dict is popped from parsed.query and set
\* in config under the upper-cased key
PromoteLoop(keys, config, query) ==
    IF keys = <<>> THEN [config |-> config, query |-> query]
    ELSE IF DictHas(query, keys[1]) /\ ~IsDict(DictGet(query, keys[1]))
    THEN PromoteLoop(Tail(keys),
                     DictSet(config, Upper(keys[1]), DictGet(query, keys[1])),
                     DictDel(query, keys[1]))
    ELSE PromoteLoop(Tail(keys), config, query)

\* CacheService.config_from_url on the UrlInfo parsed: the config and the
\* fields of the UrlInfo afterwards (OPTIONS is the dict parsed.query itself)
CacheConfig(engine, parsed, multiple_netloc) ==
    LET backend == << <<<<"B","A","C","K","E","N","D">>, VStr(engine)>> >>
        located ==
            IF multiple_netloc /\ Truthy(parsed.location)
            THEN Append(backend, <<<<"L","O","C","A","T","I","O","N">>, parsed.location>>)
            ELSE IF Truthy(parsed.hostname)
            THEN Append(backend,
                        <<<<"L","O","C","A","T","I","O","N">>,
                          IF Truthy(parsed.port)
                          THEN VStr(parsed.hostname.s \o <<":">> \o IntStr(parsed.port.n))
                          ELSE parsed.hostname>>)
            ELSE backend
        Finish(p) ==
            [config |-> VDict(UpdateMissing(DictSet(p.config, K_OPTIONS, VDict(p.query)),
                                            parsed.fragment)),
             info   |-> [parsed EXCEPT !.query = p.query]]
    IN  Finish(PromoteLoop(<<<<"t","i","m","e","o","u","t">>, <<"k","e","y","_","p","r","e","f","i","x">>, <<"v","e","r","s","i","o","n">>>>, located, parsed.query))

\* StorageService.config_from_url on the UrlInfo parsed
StorageConfig(engine, parsed) ==
    VDict(UpdateMissing(
        << <<<<"B","A","C","K","E","N","D">>, IF engine = <<"<","b","a","c","k","e","n","d",">">> THEN parsed.hostname ELSE VStr(engine)>>,
           <<K_OPTIONS, VDict(parsed.query)>> >>,
        parsed.fragment))

\* TaskService.config_from_url on the UrlInfo parsed
TaskConfig(engine, parsed) ==
    VDict(UpdateMissing(
        << <<<<"B","A","C","K","E","N","D">>, IF engine = <<"<","b","a","c","k","e","n","d",">">> THEN parsed.hostname ELSE VStr(engine)>>,
           <<K_OPTIONS, VDict(parsed.query)>> >>,
        parsed.fragment))

\* email_smtp_config_url on the UrlInfo parsed: the dict display, then
\* **config
email_smtp_config_url(engine, scheme, parsed) ==
    LET display ==
            << <<K_HOST, OrElse(parsed.hostname, VStr(<<"l","o","c","a","l","h","o","s","t">>))>>,
               <<K_PORT, OrElse(parsed.port, VInt(25))>>,
               <<<<"H","O","S","T","_","U","S","E","R">>, OrElse(parsed.username, VStr(<<>>))>>,
               <<<<"H","O","S","T","_","P","A","S","S","W","O","R","D">>, OrElse(parsed.password, VStr(<<>>))>>,
               <<<<"U","S","E","_","T","L","S">>, DictGetOr(parsed.query, <<"u","s","e","_","t","l","s">>,
                                       VBool(scheme \in {<<"s","m","t","p","s">>, <<"s","m","t","p","+","t","l","s">>}))>>,
               <<<<"U","S","E","_","S","S","L">>, DictGetOr(parsed.query, <<"u","s","e","_","s","s","l">>, VBool(scheme = <<"s","m","t","p","+","s","s","l">>))>>,
               <<<<"S","S","L","_","C","E","R","T","F","I","L","E">>, DictGetOr(parsed.query, <<"s","s","l","_","c","e","r","t","f","i","l","e">>, VNone)>>,
               <<<<"S","S","L","_","K","E","Y","F","I","L","E">>, DictGetOr(parsed.query, <<"s","s","l","_","k","e","y","f","i","l","e">>, VNone)>>,
               <<<<"T","I","M","E","O","U","T">>, DictGetOr(parsed.query, <<"t","i","m","e","o","u","t">>, VNone)>>,
               <<<<"U","S","E","_","L","O","C","A","L","T","I","M","E">>, DictGetOr(parsed.query, <<"u","s","e","_","l","o","c","a","l","t","i","m","e">>, VBool(FALSE))>> >>
    IN  VDict(DictSet(display, K_ENGINE, DictGet(EmailConfig(engine, parsed).items, K_ENGINE)))

\* _handle_postgres_like_config on the UrlInfo parsed: the config and the
\* fields of the UrlInfo afterwards (config["OPTIONS"] is parsed.query)
_handle_postgres_like_config(engine, parsed) ==
    LET adjusted ==
            IF /\ Truthy(parsed.hostname)
               /\ \/ IsSubstring(<<"%","2","f">>, Lower(parsed.hostname.s))
                  \/ IsSubstring(<<"%","3","a">>, Lower(parsed.hostname.s))
            THEN [parsed EXCEPT !.hostname = VStr(unquote(parsed.hostname.s))]
            ELSE parsed
        options ==
            IF DictHas(adjusted.query, <<"c","u","r","r","e","n","t","S","c","h","e","m","a">>)
            THEN DictSet(DictDel(adjusted.query, <<"c","u","r","r","e","n","t","S","c","h","e","m","a">>), <<"o","p","t","i","o","n","s">>,
                         VStr(<<"-","c"," ","s","e","a","r","c","h","_","p","a","t","h","=">>
                              \o PyStr(DictGet(adjusted.query, <<"c","u","r","r","e","n","t","S","c","h","e","m","a">>))))
            ELSE adjusted.query
    IN  [config |-> VDict(DictSet(DatabaseConfig(engine, adjusted).items, K_OPTIONS, VDict(options))),
         info   |-> [adjusted EXCEPT !.query = options]]

\* the transforms and builders of the model, with the arguments they are
\* called with: registry, transform, engine, scheme, multiple_netloc
Builders ==
    { [self |-> "db", transform |-> "cockroachdb_config_from_url",
       engine |-> <<"d","j","a","n","g","o","_","c","o","c","k","r","o","a","c","h","d","b">>, scheme |-> <<"c","o","c","k","r","o","a","c","h">>, multiple_netloc |-> FALSE],
      [self |-> "db", transform |-> "postgresql_config_from_url",
       engine |-> <<"d","j","a","n","g","o",".","d","b",".","b","a","c","k","e","n","d","s",".","p","o","s","t","g","r","e","s","q","l">>, scheme |-> <<"p","o","s","t","g","r","e","s">>, multiple_netloc |-> FALSE],
      [self |-> "cache", transform |-> "memory_config_from_url",
       engine |-> <<"d","j","a","n","g","o",".","c","o","r","e",".","c","a","c","h","e",".","b","a","c","k","e","n","d","s",".","l","o","c","m","e","m",".","L","o","c","M","e","m","C","a","c","h","e">>, scheme |-> <<"m","e","m","o","r","y">>,
       multiple_netloc |-> TRUE],
      [self |-> "cache", transform |-> "config_from_url",
       engine |-> <<"d","j","a","n","g","o",".","c","o","r","e",".","c","a","c","h","e",".","b","a","c","k","e","n","d","s",".","d","b",".","D","a","t","a","b","a","s","e","C","a","c","h","e">>, scheme |-> <<"d","b">>,
       multiple_netloc |-> FALSE],
      [self |-> "storage", transform |-> "storages_config_from_url",
       engine |-> <<"<","b","a","c","k","e","n","d",">">>, scheme |-> <<"s","t","o","r","a","g","e">>, multiple_netloc |-> FALSE],
      [self |-> "storage", transform |-> "storages_config_from_url",
       engine |-> <<"s","t","o","r","a","g","e","s",".","b","a","c","k","e","n","d","s",".","s","3",".","S","3","S","t","o","r","a","g","e">>, scheme |-> <<"s","3">>, multiple_netloc |-> FALSE],
      [self |-> "task", transform |-> "tasks_smtp_config_url",
       engine |-> <<"<","b","a","c","k","e","n","d",">">>, scheme |-> <<"t","a","s","k">>, multiple_netloc |-> FALSE],
      [self |-> "task", transform |-> "tasks_smtp_config_url",
       engine |-> <<"d","j","a","n","g","o",".","t","a","s","k","s",".","b","a","c","k","e","n","d","s",".","d","u","m","m","y",".","D","u","m","m","y","B","a","c","k","e","n","d">>, scheme |-> <<"d","u","m","m","y">>,
       multiple_netloc |-> FALSE],
      [self |-> "email", transform |-> "email_console_config_url",
       engine |-> <<"d","j","a","n","g","o",".","c","o","r","e",".","m","a","i","l",".","b","a","c","k","e","n","d","s",".","c","o","n","s","o","l","e",".","E","m","a","i","l","B","a","c","k","e","n","d">>, scheme |-> <<"c","o","n","s","o","l","e">>,
       multiple_netloc |-> FALSE],
      [self |-> "email", transform |-> "email_smtp_config_url",
       engine |-> <<"d","j","a","n","g","o",".","c","o","r","e",".","m","a","i","l",".","b","a","c","k","e","n","d","s",".","s","m","t","p",".","E","m","a","i","l","B","a","c","k","e","n","d">>, scheme |-> <<"s","m","t","p","s">>,
       multiple_netloc |-> FALSE] }

\* the transform b called with the UrlInfo parsed: the config it returns and
\* the fields of the UrlInfo afterwards
Build(b, parsed) ==
    CASE b.transform = "postgresql_config_from_url" ->
            _handle_postgres_like_config(b.engine, parsed)
      [] b.transform = "email_smtp_config_url" ->
            [config |-> email_smtp_config_url(b.engine, b.scheme, parsed), info |-> parsed]
      [] b.self = "cache" -> CacheConfig(b.engine, parsed, b.multiple_netloc)
      [] b.self = "db" /\ b.transform # "postgresql_config_from_url" ->
            [config |-> DatabaseConfig(b.engine, parsed), info |-> parsed]
      [] b.self = "storage" -> [config |-> StorageConfig(b.engine, parsed), info |-> parsed]
      [] b.self = "task" -> [config |-> TaskConfig(b.engine, parsed), info |-> parsed]
      [] b.self = "email" /\ b.transform # "email_smtp_config_url" ->
            [config |-> EmailConfig(b.engine, parsed), info |-> parsed]

\* ------------------------------------------------------------------------
\* Transforms (the callbacks handed to Service.register)
\* ------------------------------------------------------------------------
\* delegating_cb: return backend.config_from_url(engine, scheme, url)
\* message_cb:    raise ValidationError("unsupported url")
\* dict_cb:       raise ValidationError({"NAME": "database name is required"})
Callbacks == {"delegating_cb", "message_cb", "dict_cb"}

UnsupportedMessage == VStr(<<"unsupported url">>)

RequiredDict == VDict(<< <<K_NAME, VStr(<<"database name is required">>)>> >>)

\* a transform of services/*.py called with the URL string url: it parses
\* url (directly or in config_from_url, CacheService with its default
\* multiple_netloc=True) and builds the config; a ValueError of parse_url
\* escapes unchanged
Transform(cb, self, engine, scheme, url) ==
    LET b == [self |-> self, transform |-> cb, engine |-> engine, scheme |-> scheme,
              multiple_netloc |-> (self = "cache")]
        With(p) ==
            IF ~p.ok THEN Raise(OtherError("ValueError"))
            ELSE Return(Build(b, p.info).config)
    IN  With(ParseUrlString(urlsplit(url), b.multiple_netloc))

\* callback(self, engine, scheme, url): the outcome of the transform cb
callback(cb, self, engine, scheme, url) ==
    CASE cb = "delegating_cb" -> config_from_url(self, engine, scheme, url)
      [] cb = "message_cb"    -> RaiseValidationError(UnsupportedMessage)
      [] cb = "dict_cb"       -> RaiseValidationError(RequiredDict)
      [] OTHER                -> Transform(cb, self, engine, scheme, url)

\* ------------------------------------------------------------------------
\* base.py: Service
\* ------------------------------------------------------------------------
\* Service.__init__: self._schemes = {}
EmptySchemes == <<>>

RECURSIVE register_first_wins(_, _, _)
\* register as it would be if an existing entry were kept (setdefault)
register_first_wins(schemes_, args, cb) ==
    IF args = <<>> THEN schemes_
    ELSE register_first_wins(
             IF DictHas(schemes_, args[1][1]) THEN schemes_
             ELSE DictSet(schemes_, args[1][1], [callback |-> cb, engine |-> args[1][2]]),
             Tail(args), cb)

RECURSIVE register_rebuilding(_, _, _)
\* register as it would be if the call rebuilt the table from its own pairs
\* (self._schemes = {scheme: ... for scheme, engine in args})
register_rebuilding(schemes_, args, cb) ==
    IF args = <<>> THEN EmptySchemes
    ELSE DictSet(register_rebuilding(schemes_, SubSeq(args, 1, Len(args) - 1), cb),
                 args[Len(args)][1], [callback |-> cb, engine |-> args[Len(args)][2]])

RECURSIVE register(_, _, _)
\* the wrapper of Service.register(*args) applied to callback: the scheme
\* table after `self._schemes[scheme] = {...}` for every pair of args
register(schemes_, args, cb) ==
    IF args = <<>> THEN schemes_
    ELSE register(DictSet(schemes_, args[1][1], [callback |-> cb, engine |-> args[1][2]]),
                  Tail(args), cb)

\* one invocation of a transform, as seen by the transform
Invocation(cb, self, engine, scheme, url) ==
    [callback |-> cb, self |-> self, engine |-> engine, scheme |-> scheme, url |-> url]

\* the lookup as it would be if it took the registration out of the table
\* (self._schemes.pop(scheme))
Dispatch_consuming(schemes_, self, data, split) ==
    IF ~split.ok
    THEN [out |-> Raise(OtherError("ValueError")), calls |-> <<>>, schemes |-> schemes_]
    ELSE IF split.scheme = <<>>
    THEN [out |-> RaiseValidationError(VStr(Repr(data.s) \o
                     <<" is invalid, only full dsn urls (scheme://host...) are allowed">>)),
          calls |-> <<>>, schemes |-> schemes_]
    ELSE IF ~DictHas(schemes_, split.scheme)
    THEN [out |-> RaiseValidationError(VStr(Repr(split.scheme \o <<":", "/", "/">>) \o
                     <<" scheme is not registered">>)),
          calls |-> <<>>, schemes |-> schemes_]
    ELSE LET reg == DictGet(schemes_, split.scheme)
         IN  [out |-> callback(reg.callback, self, reg.engine, split.scheme, data.s),
              calls |-> <<Invocation(reg.callback, self, reg.engine, split.scheme, data.s)>>,
              schemes |-> DictDel(schemes_, split.scheme)]

\* Service._parse(data) for a non-empty string, after urlsplit(data): the
\* scheme lookup and the call of the registered callback
Dispatch(schemes_, self, data, split) ==
    IF ~split.ok
    THEN [out |-> Raise(OtherError("ValueError")), calls |-> <<>>, schemes |-> schemes_]
    ELSE IF split.scheme = <<>>
    THEN [out |-> RaiseValidationError(VStr(Repr(data.s) \o
                     <<" is invalid, only full dsn urls (scheme://host...) are allowed">>)),
          calls |-> <<>>, schemes |-> schemes_]
    ELSE IF ~DictHas(schemes_, split.scheme)
    THEN [out |-> RaiseValidationError(VStr(Repr(split.scheme \o <<":", "/", "/">>) \o
                     <<" scheme is not registered">>)),
          calls |-> <<>>, schemes |-> schemes_]
    ELSE LET reg == DictGet(schemes_, split.scheme)
         IN  [out |-> callback(reg.callback, self, reg.engine, split.scheme, data.s),
              calls |-> <<Invocation(reg.callback, self, reg.engine, split.scheme, data.s)>>,
              schemes |-> schemes_]

\* the lookup as it would be if an unregistered scheme were ignored
Dispatch_lenient(schemes_, self, data, split) ==
    IF ~split.ok
    THEN [out |-> Raise(OtherError("ValueError")), calls |-> <<>>, schemes |-> schemes_]
    ELSE IF split.scheme = <<>>
    THEN [out |-> RaiseValidationError(VStr(Repr(data.s) \o
                     <<" is invalid, only full dsn urls (scheme://host...) are allowed">>)),
          calls |-> <<>>, schemes |-> schemes_]
    ELSE IF ~DictHas(schemes_, split.scheme)
    THEN [out |-> Return(VDict(<<>>)), calls |-> <<>>, schemes |-> schemes_]
    ELSE LET reg == DictGet(schemes_, split.scheme)
         IN  [out |-> callback(reg.callback, self, reg.engine, split.scheme, data.s),
              calls |-> <<Invocation(reg.callback, self, reg.engine, split.scheme, data.s)>>,
              schemes |-> schemes_]

\* _parse as it would be if an unregistered scheme were ignored
_parse_lenient(schemes_, self, data) ==
    IF data.t # "str"
    THEN [out |-> RaiseValidationError(VStr(<<"Invalid input type: ", TypeName(data)>>)),
          calls |-> <<>>, schemes |-> schemes_]
    ELSE IF data.s = <<>>
    THEN [out |-> Return(VDict(<<>>)), calls |-> <<>>, schemes |-> schemes_]
    ELSE Dispatch_lenient(schemes_, self, data, urlsplit(data.s))

\* _parse as it would be without the empty-string case
_parse_no_empty(schemes_, self, data) ==
    IF data.t # "str"
    THEN [out |-> RaiseValidationError(VStr(<<"Invalid input type: ", TypeName(data)>>)),
          calls |-> <<>>, schemes |-> schemes_]
    ELSE Dispatch(schemes_, self, data, urlsplit(data.s))

\* Service._parse(data): [out, calls, schemes] = the outcome, the transform
\* invocations made, and the scheme table after the call
_parse(schemes_, self, data) ==
    IF data.t # "str"
    THEN [out |-> RaiseValidationError(VStr(<<"Invalid input type: ", TypeName(data)>>)),
          calls |-> <<>>, schemes |-> schemes_]
    ELSE IF data.s = <<>>
    THEN [out |-> Return(VDict(<<>>)), calls |-> <<>>, schemes |-> schemes_]
    ELSE Dispatch(schemes_, self, data, urlsplit(data.s))

RECURSIVE BatchLoop_fail_fast(_, _, _, _, _, _)
\* the loop as it would be if the first failing entry ended the call
BatchLoop_fail_fast(schemes_, self, items, errors, parsed_data, calls) ==
    IF items = <<>>
    THEN [out |-> IF errors # <<>>
                  THEN Raise(ValidationError(VDict(errors)).exc)
                  ELSE Return(VDict(parsed_data)),
          calls |-> calls, schemes |-> schemes_]
    ELSE LET key   == items[1][1]
             value == items[1][2]
             Entry(r) ==
                 IF r.out.kind = "return"
                 THEN BatchLoop_fail_fast(r.schemes, self, Tail(items), errors,
                                DictSet(parsed_data, key, r.out.value), calls \o r.calls)
                 ELSE [out |-> r.out, calls |-> calls \o r.calls, schemes |-> r.schemes]
         IN  IF IsDict(value)
             THEN BatchLoop_fail_fast(schemes_, self, Tail(items), errors,
                            DictSet(parsed_data, key, value), calls)
             ELSE Entry(_parse(schemes_, self, value))

RECURSIVE BatchLoop_copying(_, _, _, _, _, _)
\* the loop as it would be if a mapping-valued entry were copied (dict(value))
BatchLoop_copying(schemes_, self, items, errors, parsed_data, calls) ==
    IF items = <<>>
    THEN [out |-> IF errors # <<>>
                  THEN Raise(ValidationError(VDict(errors)).exc)
                  ELSE Return(VDict(parsed_data)),
          calls |-> calls, schemes |-> schemes_]
    ELSE LET key   == items[1][1]
             value == items[1][2]
             Entry(r) ==
                 IF r.out.kind = "return"
                 THEN BatchLoop_copying(r.schemes, self, Tail(items), errors,
                                DictSet(parsed_data, key, r.out.value), calls \o r.calls)
                 ELSE IF IsValidationError(r.out.exc)
                 THEN BatchLoop_copying(r.schemes, self, Tail(items),
                                DictSet(errors, key, r.out.exc), parsed_data, calls \o r.calls)
                 ELSE [out |-> r.out, calls |-> calls \o r.calls, schemes |-> r.schemes]
         IN  IF IsDict(value)
             THEN BatchLoop_copying(schemes_, self, Tail(items), errors,
                            DictSet(parsed_data, key, VDict(value.items)), calls)
             ELSE Entry(_parse(schemes_, self, value))

RECURSIVE BatchLoop_no_passthrough(_, _, _, _, _, _)
\* the loop as it would be without the isinstance(value, dict) test: every
\* value is handed to _parse
BatchLoop_no_passthrough(schemes_, self, items, errors, parsed_data, calls) ==
    IF items = <<>>
    THEN [out |-> IF errors # <<>>
                  THEN Raise(ValidationError(VDict(errors)).exc)
                  ELSE Return(VDict(parsed_data)),
          calls |-> calls, schemes |-> schemes_]
    ELSE LET key   == items[1][1]
             Entry(r) ==
                 IF r.out.kind = "return"
                 THEN BatchLoop_no_passthrough(r.schemes, self, Tail(items), errors,
                                DictSet(parsed_data, key, r.out.value), calls \o r.calls)
                 ELSE IF IsValidationError(r.out.exc)
                 THEN BatchLoop_no_passthrough(r.schemes, self, Tail(items),
                                DictSet(errors, key, r.out.exc), parsed_data, calls \o r.calls)
                 ELSE [out |-> r.out, calls |-> calls \o r.calls, schemes |-> r.schemes]
         IN  Entry(_parse(schemes_, self, items[1][2]))

RECURSIVE BatchLoop(_, _, _, _, _, _)
\* the for loop of Service.parse over data.items(); an exception that is
\* not a ValidationError leaves the loop and the call
BatchLoop(schemes_, self, items, errors, parsed_data, calls) ==
    IF items = <<>>
    THEN [out |-> IF errors # <<>>
                  THEN Raise(ValidationError(VDict(errors)).exc)
                  ELSE Return(VDict(parsed_data)),
          calls |-> calls, schemes |-> schemes_]
    ELSE LET key   == items[1][1]
             value == items[1][2]
             Entry(r) ==
                 IF r.out.kind = "return"
                 THEN BatchLoop(r.schemes, self, Tail(items), errors,
                                DictSet(parsed_data, key, r.out.value), calls \o r.calls)
                 ELSE IF IsValidationError(r.out.exc)
                 THEN BatchLoop(r.schemes, self, Tail(items),
                                DictSet(errors, key, r.out.exc), parsed_data, calls \o r.calls)
                 ELSE [out |-> r.out, calls |-> calls \o r.calls, schemes |-> r.schemes]
         IN  IF IsDict(value)
             THEN BatchLoop(schemes_, self, Tail(items), errors,
                            DictSet(parsed_data, key, value), calls)
             ELSE Entry(_parse(schemes_, self, value))

\* Service.parse(data): [out, calls, schemes]
parse(schemes_, self, data) ==
    IF IsDict(data) THEN BatchLoop(schemes_, self, data.items, <<>>, <<>>, <<>>)
    ELSE IF data.t = "str" THEN _parse(schemes_, self, data)
    ELSE [out |-> RaiseValidationError(VStr(<<"Invalid input type: ", TypeName(data)>>)),
          calls |-> <<>>, schemes |-> schemes_]

\* ------------------------------------------------------------------------
\* Bounds and input domains
\* ------------------------------------------------------------------------
\* number of register calls in a behaviour
MaxRegs == 2

\* number of entries of a batch (mapping) input
MaxBatch == 2

S_pg == <<"p","g">>
S_my == <<"m","y">>
S_sep == <<":","/","/">>

\* engines as (scheme, engine) pairs are registered with
E_postgres == <<"django.db.backends.postgresql">>
E_cockroach == <<"django_cockroachdb">>

\* the argument lists of the register calls: one pair, two aliases of one
\* transform, and the same scheme twice in one call
RegisterArgs ==
    { << <<S_pg, E_postgres>> >>,
      << <<S_pg, E_cockroach>>, <<S_my, E_postgres>> >>,
      << <<S_my, E_cockroach>>, <<S_my, E_postgres>> >> }

\* single-mode inputs: a scheme token, what follows it, and the rest
UrlHeads == { S_pg, <<"P","g">>, <<" ","m","y">>, <<"z","z">>, <<"1","a">>, <<>> }

UrlSeps == { S_sep, <<":">>, <<>> }

UrlRests == { <<>>, <<"h">>, <<"h",":","5","/","d","#","k","=","1">>,
              <<"h",":","x">>, <<"[","h">> }

UrlStrings == { h \o sp \o r : h \in UrlHeads, sp \in UrlSeps, r \in UrlRests }

\* already-structured configurations, objects owned by the caller
ConfigA == DictObj(1, << <<K_ENGINE, VStr(E_postgres)>> >>)

ConfigB == DictObj(2, <<>>)

\* the values of the entries of a batch
BatchValues ==
    { VStr(S_pg \o S_sep \o <<"h">>),
      VStr(S_my \o S_sep \o <<"h">>),
      VStr(S_my \o S_sep \o <<"h",":","x">>),
      VStr(<<>>),
      VStr(<<"h">>),
      VStr(<<"z","z">> \o S_sep),
      VInt(3),
      ConfigA, ConfigB }

\* the keys of a batch, in insertion order
BatchKeys == << <<"default">>, <<"cache">>, <<"archive">> >>

\* the batch inputs: dicts (object 9) of up to MaxBatch entries
BatchInputs ==
    UNION { { DictObj(9, [i \in 1..n |-> <<BatchKeys[i], vs[i]>>]) :
                vs \in [1..n -> BatchValues] } : n \in 0..MaxBatch }

\* a few inputs of every kind, for behaviours that also register
CoreInputs ==
    { VStr(S_pg \o S_sep \o <<"h">>),
      VStr(<<"P","g">> \o S_sep \o <<"h",":","5","/","d">>),
      VStr(S_my \o S_sep \o <<"h",":","x">>),
      VStr(S_my \o <<":","h">>),
      VStr(<<"z","z">> \o S_sep \o <<"h">>),
      VStr(<<"h">>),
      VStr(<<>>),
      VInt(3),
      DictObj(9, << <<BatchKeys[1], VStr(S_pg \o S_sep \o <<"h">>)>>,
                    <<BatchKeys[2], VStr(S_my \o S_sep \o <<"h">>)>> >>),
      DictObj(9, << <<BatchKeys[1], ConfigA>>,
                    <<BatchKeys[2], VStr(<<"z","z">> \o S_sep)>> >>) }

\* inputs that are neither a string nor a mapping
OtherInputs == { VInt(3), VNone, VList(<<VStr(S_pg \o S_sep \o <<"h">>)>>) }

\* number of UrlInfo objects alive at once
MaxInfos == 2

\* the URL strings handed to parse_url
UrlInputs ==
    { <<"p","g",":","/","/","u",":","p","@","h",":","5","/","d","?","a","=","1","#","B","=","o","n">>,
      <<"s",":","/","/","h","1",":","1",",","h","2",":","2","/","p">>,
      <<"p","g",":","/","/","H",":","x","/","d">>,
      <<"p","g",":","/","/","%","2","F","v","%","2","F","r","/","M","y","%","2","0","D","b">>,
      <<"p","g",":","f","o","o">>,
      <<"p","g",":","/","/","[",":",":","1","]",":","5">>,
      <<"p","g",":","/","/","u",":","p","@","s","s","@","h">>,
      <<>> }

\* number of key=value pairs of a query string or fragment
MaxPairs == 3

\* the key=value pairs query strings and fragments are made of
QueryPairs ==
    { <<"p","o","o","l","=","l","e","g","a","c","y">>,
      <<"p","o","o","l",".","m","i","n","_","s","i","z","e","=","4">>,
      <<"p","o","o","l",".","m","a","x","=","9">>,
      <<"p","o","o","l","=","o","l","d">>,
      <<"p","o","o","l",".","m","i","n","_","s","i","z","e",".","x","=","1">>,
      <<"x","=","1">> }

RECURSIVE JoinAmp(_)
\* "&".join(pairs)
JoinAmp(pairs) ==
    IF pairs = <<>> THEN <<>>
    ELSE IF Len(pairs) = 1 THEN pairs[1]
    ELSE pairs[1] \o <<"&">> \o JoinAmp(Tail(pairs))

QueryStrings ==
    { JoinAmp(ps) : ps \in UNION { [1..n -> QueryPairs] : n \in 1..MaxPairs } }

\* ------------------------------------------------------------------------
\* State
\* ------------------------------------------------------------------------
VARIABLES
    schemes,    \* Service._schemes of every registry: registry -> item list
    regLog,     \* history: the register calls made so far, in order
    heap,       \* the objects alive: heap[id] holds the fields of object id
    last        \* the most recent operation: its arguments and its outcome

vars == <<schemes, regLog, heap, last>>

NoOp == [op |-> "none"]

Init ==
    /\ schemes = [r \in Registries |-> EmptySchemes]
    /\ regLog = <<>>
    /\ heap = <<>>
    /\ last = NoOp

\* the caller is between two calls
Idle == last = NoOp

\* @self.register(*args) applied to the transform cb
Register(self, args, cb) ==
    /\ Idle
    /\ Len(regLog) < MaxRegs
    /\ schemes' = [schemes EXCEPT ![self] = register(@, args, cb)]
    /\ regLog' = Append(regLog, [self |-> self, args |-> args, callback |-> cb])
    /\ last' = [op |-> "register", self |-> self, args |-> args, callback |-> cb,
                before |-> schemes]
    /\ UNCHANGED heap

\* self.parse(data), for data a string, a mapping or anything else
Parse(self, data) ==
    /\ Idle
    /\ \E r \in {parse(schemes[self], self, data)} :
          /\ schemes' = [schemes EXCEPT ![self] = r.schemes]
          /\ last' = [op |-> "parse", self |-> self, data |-> data,
                      out |-> r.out, calls |-> r.calls, before |-> schemes]
    /\ UNCHANGED <<regLog, heap>>

ParseSingle == \E self \in Registries, url \in UrlStrings : Parse(self, VStr(url))

ParseBatch == \E self \in Registries, data \in BatchInputs : Parse(self, data)

ParseOther == \E self \in Registries, data \in OtherInputs : Parse(self, data)

ParseCore == \E self \in Registries, data \in CoreInputs : Parse(self, data)

RegisterAny == \E self \in Registries, args \in RegisterArgs, cb \in Callbacks : Register(self, args, cb)

\* the caller has looked at the outcome and goes on
Continue ==
    /\ ~Idle
    /\ last' = NoOp
    /\ UNCHANGED <<schemes, regLog, heap>>

\* registration and parsing interleaved, from empty registries
Next == RegisterAny \/ ParseCore \/ Continue

Spec == Init /\ [][Next]_vars

\* ------------------------------------------------------------------------
\* Parsing on registries populated at start-up
\* ------------------------------------------------------------------------
RegCall(self, args, cb) == [self |-> self, args |-> args, callback |-> cb]

\* start-up scripts: the register calls made while the modules are imported
StartupScripts ==
    { <<>>,
      << RegCall("db", << <<S_pg, E_postgres>> >>, "delegating_cb"),
         RegCall("db", << <<S_my, E_cockroach>> >>, "message_cb"),
         RegCall("email", << <<S_pg, E_postgres>> >>, "dict_cb"),
         RegCall("email", << <<S_my, E_cockroach>> >>, "delegating_cb") >>,
      << RegCall("db", << <<S_pg, E_postgres>>, <<S_my, E_cockroach>> >>, "dict_cb"),
         RegCall("db", << <<S_my, E_postgres>> >>, "delegating_cb"),
         RegCall("email", << <<S_pg, E_cockroach>> >>, "message_cb") >> }

RECURSIVE Replay(_, _)
\* the scheme tables after the register calls of log, starting from tables
Replay(tables, log) ==
    IF log = <<>> THEN tables
    ELSE Replay([tables EXCEPT ![log[1].self] = register(@, log[1].args, log[1].callback)],
                Tail(log))

InitParse ==
    /\ \E script \in StartupScripts :
          /\ regLog = script
          /\ schemes = Replay([r \in Registries |-> EmptySchemes], script)
    /\ heap = <<>>
    /\ last = NoOp

NextParse == ParseSingle \/ ParseBatch \/ ParseOther \/ Continue

SpecParse == InitParse /\ [][NextParse]_vars

\* ------------------------------------------------------------------------
\* parse_url called directly
\* ------------------------------------------------------------------------
\* parse_url(url, multiple_netloc=...) for url a string or a live UrlInfo
ParseUrl(url, multiple_netloc) ==
    /\ Idle
    /\ \E r \in {parse_url(heap, url, multiple_netloc)} :
          /\ Len(r.heap) <= MaxInfos
          /\ heap' = r.heap
          /\ last' = [op |-> "parse_url", url |-> url, multiple_netloc |-> multiple_netloc,
                      out |-> r.out, before |-> heap]
    /\ UNCHANGED <<schemes, regLog>>

ParseUrlOfString == \E x \in UrlInputs, m \in BOOLEAN : ParseUrl(VStr(x), m)

ParseUrlOfInfo == \E id \in DOMAIN heap, m \in BOOLEAN : ParseUrl(UrlInfoRef(id), m)

\* the heap holds nothing, or one UrlInfo() built by the caller
InitUrl ==
    /\ schemes = [r \in Registries |-> EmptySchemes]
    /\ regLog = <<>>
    /\ heap \in { <<>>, <<UrlInfoDefault>> }
    /\ last = NoOp

NextUrl == ParseUrlOfString \/ ParseUrlOfInfo \/ Continue

SpecUrl == InitUrl /\ [][NextUrl]_vars

\* ------------------------------------------------------------------------
\* parse_url on URLs that carry a query string or a fragment
\* ------------------------------------------------------------------------
UrlBase == <<"p","g",":","/","/","h","/","d">>

\* parse_url of a URL whose query string (part = "query") or fragment
\* (part = "fragment") is qs
ParseQuery(qs, part) ==
    /\ Idle
    /\ heap = <<>>
    /\ \E url \in {UrlBase \o (IF part = "query" THEN <<"?">> ELSE <<"#">>) \o qs} :
       \E r \in {parse_url(heap, VStr(url), FALSE)} :
          /\ heap' = r.heap
          /\ last' = [op |-> "parse_url", url |-> VStr(url), multiple_netloc |-> FALSE,
                      out |-> r.out, before |-> heap, part |-> part, qs |-> qs]
    /\ UNCHANGED <<schemes, regLog>>

ParseQueryAny == \E qs \in QueryStrings, part \in {"query", "fragment"} : ParseQuery(qs, part)

\* the caller drops the UrlInfo it got
Discard ==
    /\ ~Idle
    /\ heap' = <<>>
    /\ last' = NoOp
    /\ UNCHANGED <<schemes, regLog>>

NextQuery == ParseQueryAny \/ Discard

SpecQuery == Init /\ [][NextQuery]_vars

\* ------------------------------------------------------------------------
\* Properties
\* ------------------------------------------------------------------------
LastIsParse == last.op = "parse"

LastIsSingle == LastIsParse /\ last.data.t = "str"

LastIsBatch == LastIsParse /\ IsDict(last.data)

\* the scheme table of the called registry when the call was made
TableBefore == last.before[last.self]

\* the outcome is a raised ValidationError carrying only a message
RaisedMessage(out) ==
    /\ out.kind = "raise" /\ IsValidationError(out.exc)
    /\ out.exc.has_message /\ ~out.exc.has_error_dict

\* the outcome is a raised ValidationError carrying only an error_dict
RaisedDict(out) ==
    /\ out.kind = "raise" /\ IsValidationError(out.exc)
    /\ out.exc.has_error_dict /\ ~out.exc.has_message

\* the single-string parse of one batch value, on the table of the call
EntryParse(v) == _parse(TableBefore, last.self, v)

\* a batch value that is passed through or parsed without an exception
EntrySucceeds(v) == IsDict(v) \/ EntryParse(v).out.kind = "return"

\* a batch value whose parse raises a ValidationError with a message
EntryFails(v) == ~IsDict(v) /\ RaisedMessage(EntryParse(v).out)

\* the three failures of the registry itself: a value that is neither a
\* string nor a mapping, a string without a scheme, an unregistered scheme
EntryFailsInRegistry(v) ==
    /\ ~IsDict(v)
    /\ \/ v.t # "str"
       \/ /\ v.s # <<>>
          /\ urlsplit(v.s).ok
          /\ \/ urlsplit(v.s).scheme = <<>>
             \/ ~DictHas(TableBefore, urlsplit(v.s).scheme)

RECURSIVE ConcatCalls(_)
\* the transform invocations of the entries of a batch, one entry after the other
ConcatCalls(items) ==
    IF items = <<>> THEN <<>>
    ELSE (IF IsDict(items[1][2]) THEN <<>> ELSE EntryParse(items[1][2]).calls)
         \o ConcatCalls(Tail(items))

RECURSIVE MostRecent(_, _, _)
\* the most recent registration of scheme k on registry self in the history
MostRecent(log, self, k) ==
    IF log = <<>> THEN [found |-> FALSE, engine |-> <<>>, callback |-> "none"]
    ELSE LET e   == log[Len(log)]
             idx == { i \in DOMAIN e.args : e.args[i][1] = k }
         IN  IF e.self = self /\ idx # {}
             THEN [found |-> TRUE,
                   engine |-> e.args[CHOOSE i \in idx : \A j \in idx : j <= i][2],
                   callback |-> e.callback]
             ELSE MostRecent(SubSeq(log, 1, Len(log) - 1), self, k)

\* C1: after any sequence of register calls, parse(s) of a non-empty string
\* s whose scheme token k (as urlsplit extracts it, lowercased) is registered
\* on the registry invokes exactly once the callback of the most recent
\* registration of k, with (the registry, that registration's engine, k, s
\* unchanged), and its outcome is exactly the outcome of that callback.
C1_DispatchToLatest ==
    (LastIsSingle /\ last.data.s # <<>> /\ urlsplit(last.data.s).ok
        /\ MostRecent(regLog, last.self, urlsplit(last.data.s).scheme).found)
    => LET k == urlsplit(last.data.s).scheme
           m == MostRecent(regLog, last.self, k)
       IN  /\ last.calls = <<Invocation(m.callback, last.self, m.engine, k, last.data.s)>>
           /\ last.out = callback(m.callback, last.self, m.engine, k, last.data.s)

\* C1 witness: a scheme registered twice on one registry with different
\* callbacks, and a parse that returned the mapping of the later one
C1_Witness ==
    /\ LastIsSingle /\ last.out.kind = "return" /\ Len(last.calls) = 1
    /\ \E i, j \in DOMAIN regLog :
          /\ i < j
          /\ regLog[i].self = last.self /\ regLog[j].self = last.self
          /\ regLog[i].callback # regLog[j].callback
          /\ \E a \in DOMAIN regLog[i].args : regLog[i].args[a][1] = last.calls[1].scheme
          /\ \E b \in DOMAIN regLog[j].args : regLog[j].args[b][1] = last.calls[1].scheme

\* C2: parse_url of a UrlInfo, with either value of multiple_netloc, returns
\* that very object and changes no field of any UrlInfo; this covers the
\* objects that an earlier parse_url(x) of a string returned.
C2_ParseUrlIdentity ==
    (last.op = "parse_url" /\ IsUrlInfo(last.url))
    => /\ last.out = Return(last.url)
       /\ heap = last.before

\* C2 witness: parse_url(parse_url(x), multiple_netloc=True) for a string x
C2_Witness ==
    /\ last.op = "parse_url" /\ IsUrlInfo(last.url) /\ last.multiple_netloc
    /\ heap[last.url.id] # UrlInfoDefault
    /\ last.out.kind = "return"

CarriesSchemePrefix(str) ==
    LET u == RemoveUnsafe(LStrip(str))
    IN  \E i \in 2..(Len(u) - 2) :
           /\ u[i] = ":" /\ u[i + 1] = "/" /\ u[i + 2] = "/"
           /\ IsAlpha(u[1])
           /\ \A j \in 1..(i - 1) : u[j] \in SchemeChars

\* C4: parse of a non-empty string that carries no scheme://  prefix (no
\* scheme token at all, or a scheme followed by ":" but not by "://") raises
\* a ValidationError whose message contains the literal input, and invokes
\* no transform.
C4_NoPrefixRejected ==
    (LastIsSingle /\ last.data.s # <<>> /\ ~CarriesSchemePrefix(last.data.s))
    => /\ RaisedMessage(last.out)
       /\ IsSubstring(last.data.s, last.out.exc.message.s)
       /\ last.calls = <<>>

\* C5: parse of a string whose scheme is not in the scheme table of the
\* registry raises a ValidationError whose message names that scheme as
\* '<scheme>://', invokes no callback, and leaves every scheme table unchanged.
C5_UnregisteredRejected ==
    (/\ LastIsSingle /\ urlsplit(last.data.s).ok
     /\ urlsplit(last.data.s).scheme # <<>>
     /\ ~DictHas(TableBefore, urlsplit(last.data.s).scheme))
    => /\ RaisedMessage(last.out)
       /\ IsSubstring(Repr(urlsplit(last.data.s).scheme \o S_sep), last.out.exc.message.s)
       /\ last.calls = <<>>
       /\ schemes = last.before

\* C5 witness: a registry with registered schemes rejects another scheme
C5_Witness ==
    /\ LastIsSingle /\ TableBefore # <<>>
    /\ urlsplit(last.data.s).ok
    /\ urlsplit(last.data.s).scheme # <<>>
    /\ ~DictHas(TableBefore, urlsplit(last.data.s).scheme)
    /\ last.out.kind = "raise"

\* C6: every failure of parse is a ValidationError (one message, or one
\* per-key dictionary); no other exception type escapes, whatever the port
\* or the network location of the URL.
C6_OnlyValidationErrors ==
    (LastIsParse /\ last.out.kind = "raise")
    => (RaisedMessage(last.out) \/ RaisedDict(last.out))

\* the transform invocation of a batch value raises a ValidationError
TransformRaisesValidationError(v) ==
    /\ ~IsDict(v) /\ Len(EntryParse(v).calls) = 1
    /\ EntryParse(v).out.kind = "raise"
    /\ IsValidationError(EntryParse(v).out.exc)

\* C7: a ValidationError raised by a transform, in message form or in
\* dictionary form, reaches the caller of parse unchanged in single mode; in
\* batch mode (all other entries succeeding or failing with a
\* ValidationError) it is recorded under the key of its entry in the
\* aggregated ValidationError, and the transform runs once per entry.
C7_TransformErrorsPropagate ==
    /\ (LastIsSingle /\ Len(last.calls) = 1
            /\ callback(last.calls[1].callback, last.self, last.calls[1].engine,
                        last.calls[1].scheme, last.calls[1].url).kind = "raise")
       => last.out = callback(last.calls[1].callback, last.self, last.calls[1].engine,
                              last.calls[1].scheme, last.calls[1].url)
    /\ (/\ LastIsBatch
        /\ \E i \in DOMAIN last.data.items :
              TransformRaisesValidationError(last.data.items[i][2])
        /\ \A i \in DOMAIN last.data.items :
              \/ EntrySucceeds(last.data.items[i][2])
              \/ IsValidationError(EntryParse(last.data.items[i][2]).out.exc))
       => /\ RaisedDict(last.out)
          /\ \A i \in DOMAIN last.data.items :
                TransformRaisesValidationError(last.data.items[i][2])
                => DictHas(last.out.exc.error_dict, last.data.items[i][1])
          /\ last.calls = ConcatCalls(last.data.items)

\* C8: when no entry of a batch fails, parse returns a new mapping with the
\* keys of the input in the same order; a value that was a mapping is that
\* very object, a value that was a string is the result of its single parse;
\* the input mapping is not the result.
C8_BatchResult ==
    (LastIsBatch /\ \A i \in DOMAIN last.data.items : EntrySucceeds(last.data.items[i][2]))
    => /\ last.out.kind = "return"
       /\ IsDict(last.out.value)
       /\ last.out.value.id # last.data.id
       /\ DictKeys(last.out.value.items) = DictKeys(last.data.items)
       /\ \A i \in DOMAIN last.data.items :
             LET v == last.data.items[i][2]
             IN  last.out.value.items[i][2]
                    = IF IsDict(v) THEN v ELSE EntryParse(v).out.value
       /\ last.calls = ConcatCalls(last.data.items)

\* C8 witness: a pre-parsed mapping followed by a URL whose transform ran
C8_Witness ==
    /\ LastIsBatch /\ Len(last.data.items) = 2
    /\ IsDict(last.data.items[1][2])
    /\ last.data.items[2][2].t = "str"
    /\ Len(last.calls) = 1
    /\ last.out.kind = "return"

\* C9: parse("") returns an empty mapping on every registry, whatever its
\* scheme table, and invokes no callback; in batch mode an entry whose value
\* is "" is never a failure: it is absent from the aggregated error and maps
\* to an empty mapping in the result.
C9_EmptyString ==
    /\ (LastIsParse /\ last.data = VStr(<<>>))
       => (last.out = Return(VDict(<<>>)) /\ last.calls = <<>>)
    /\ LastIsBatch
       => \A i \in DOMAIN last.data.items :
             last.data.items[i][2] = VStr(<<>>)
             => /\ RaisedDict(last.out)
                   => ~DictHas(last.out.exc.error_dict, last.data.items[i][1])
                /\ last.out.kind = "return"
                   => last.out.value.items[i] = <<last.data.items[i][1], VDict(<<>>)>>
                /\ (\A j \in DOMAIN last.data.items : EntrySucceeds(last.data.items[j][2]))
                   => last.out.kind = "return"

\* C9 witness: a batch of an empty string and a URL whose transform ran, on
\* a registry with registered schemes
C9_Witness ==
    /\ LastIsBatch /\ Len(last.data.items) = 2
    /\ last.data.items[1][2] = VStr(<<>>)
    /\ Len(last.calls) = 1
    /\ last.out.kind = "return"

\* the last operation parsed a querystring or a fragment
LastIsQuery == last.op = "parse_url" /\ last.out.kind = "return"

\* the mapping parsed from the querystring (or fragment) of the last parse_url
QueryResult ==
    LET info == heap[last.out.value.id]
    IN  IF last.part = "query" THEN info.query ELSE info.fragment

\* the (key, value) pairs as the querystring declares them, left to right
Declared == parse_qsl(last.qs)

\* the path segments of the key of the i-th declared pair
DeclaredParts(i) == Split(Declared[i][1], ".")

\* the position at which the key of the i-th declared pair first occurs
FirstOccurrence(i) ==
    CHOOSE j \in DOMAIN Declared :
        /\ Declared[j][1] = Declared[i][1]
        /\ \A k \in 1..(j - 1) : Declared[k][1] # Declared[i][1]

IsPrefix(p, q) == Len(p) <= Len(q) /\ SubSeq(q, 1, Len(p)) = p

\* the declared pairs whose key reaches the segment at path
Touching(path) == { i \in DOMAIN Declared : IsPrefix(path, DeclaredParts(i)) }

\* pair f ends at a segment (flat form) that the key of pair d goes through
\* (dotted form)
Collide(f, d) ==
    /\ IsPrefix(DeclaredParts(f), DeclaredParts(d))
    /\ DeclaredParts(f) # DeclaredParts(d)

RECURSIVE Lookup(_, _)
\* the value at a path of segments in a nested mapping
Lookup(items, path) ==
    IF ~DictHas(items, path[1]) THEN [found |-> FALSE, value |-> VNone]
    ELSE IF Len(path) = 1 THEN [found |-> TRUE, value |-> DictGet(items, path[1])]
    ELSE IF ~IsDict(DictGet(items, path[1])) THEN [found |-> FALSE, value |-> VNone]
    ELSE Lookup(DictGet(items, path[1]).items, Tail(path))

\* the pair, among those reaching the segment, that is declared last
LastDeclared(path) == CHOOSE i \in Touching(path) : \A j \in Touching(path) : j <= i

\* the pair, among those reaching the segment, whose key first occurs last
LastFirstOccurring(path) ==
    CHOOSE i \in Touching(path) :
        /\ FirstOccurrence(i) = i
        /\ \A j \in Touching(path) : FirstOccurrence(j) <= i

Q_flat_dotted == <<"p","o","o","l","=","l","e","g","a","c","y","&","p","o","o","l",".","m","i","n","_","s","i","z","e","=","4">>

Q_dotted_flat == <<"p","o","o","l",".","m","i","n","_","s","i","z","e","=","4","&","p","o","o","l","=","l","e","g","a","c","y">>

R_flat_dotted == << <<<<"p","o","o","l">>, VDict(<< <<<<"m","i","n","_","s","i","z","e">>, VInt(4)>> >>)>> >>

R_dotted_flat == << <<<<"p","o","o","l">>, VStr(<<"l","e","g","a","c","y">>)>> >>

\* the two collisions the documentation spells out
C10_Examples ==
    /\ last.qs = Q_flat_dotted => QueryResult = R_flat_dotted
    /\ last.qs = Q_dotted_flat => QueryResult = R_dotted_flat

\* C10 as stated: parsing never fails, and where a flat key and a dotted key
\* collide on a segment, the value that survives there has the form of the
\* pair declared later in the querystring, also when a key is repeated.
C10_LaterDeclaredSurvives ==
    (last.op = "parse_url")
    => /\ LastIsQuery
       /\ C10_Examples
       /\ \A f, d \in DOMAIN Declared :
             (Collide(f, d) /\ Lookup(QueryResult, DeclaredParts(f)).found)
             => (IsDict(Lookup(QueryResult, DeclaredParts(f)).value)
                    <=> DeclaredParts(LastDeclared(DeclaredParts(f))) # DeclaredParts(f))

\* C10 amended: parsing never fails, and where a flat key and a dotted key
\* collide on a segment, the value that survives there has the form of the
\* key whose first occurrence is later: a repeated key counts where it first
\* occurs, because repeated keys are grouped before the nesting is built.
C10_LaterFirstOccurrenceSurvives ==
    (last.op = "parse_url")
    => /\ LastIsQuery
       /\ C10_Examples
       /\ \A f, d \in DOMAIN Declared :
             (Collide(f, d) /\ Lookup(QueryResult, DeclaredParts(f)).found)
             => (IsDict(Lookup(QueryResult, DeclaredParts(f)).value)
                    <=> DeclaredParts(LastFirstOccurring(DeclaredParts(f))) # DeclaredParts(f))

\* C10 witness: a flat key repeated after the dotted key it collides with,
\* where the nested mapping survives although the flat pair is declared last
C10_Witness ==
    /\ LastIsQuery
    /\ \E f, d \in DOMAIN Declared :
          /\ Collide(f, d)
          /\ DeclaredParts(LastDeclared(DeclaredParts(f))) = DeclaredParts(f)
          /\ Lookup(QueryResult, DeclaredParts(f)).found
          /\ IsDict(Lookup(QueryResult, DeclaredParts(f)).value)

\* ------------------------------------------------------------------------
\* C11: dotted keys that do not conflict
\* ------------------------------------------------------------------------
\* no declared key is repeated and no key path is a prefix of another
NonConflicting ==
    \A i, j \in DOMAIN Declared :
        i # j => ~IsPrefix(DeclaredParts(i), DeclaredParts(j))

RECURSIVE AsMapping(_)
\* a dict as Python compares it with ==: the keys and what each maps to,
\* whatever the insertion order, nested dicts likewise
AsMapping(items) ==
    [k \in Range(DictKeys(items)) |->
        IF IsDict(DictGet(items, k))
        THEN [t |-> "dict", m |-> AsMapping(DictGet(items, k).items)]
        ELSE DictGet(items, k)]

\* the key=value pairs of the last querystring in every order
Reorderings ==
    LET raw == Split(last.qs, "&")
        n   == Len(raw)
    IN  { [i \in 1..n |-> raw[f[i]]] :
            f \in { g \in [1..n -> 1..n] : \A i, j \in 1..n : i # j => g[i] # g[j] } }

\* C11: when no declared key is repeated and no key path is a proper prefix
\* of another, a key with k dots lies under k nested mappings with its cast
\* value at the leaf, every declared leaf is in the result (keys sharing a
\* prefix share the nested mapping, no sibling is lost), the top level holds
\* the first segments only, and every order of the pairs gives an equal
\* mapping.
C11_NestedKeys ==
    (last.op = "parse_url" /\ LastIsQuery /\ NonConflicting)
    => /\ \A i \in DOMAIN Declared :
             /\ Lookup(QueryResult, DeclaredParts(i))
                    = [found |-> TRUE, value |-> _cast_value(Declared[i][2])]
             /\ \A n \in 1..(Len(DeclaredParts(i)) - 1) :
                    /\ Lookup(QueryResult, SubSeq(DeclaredParts(i), 1, n)).found
                    /\ IsDict(Lookup(QueryResult, SubSeq(DeclaredParts(i), 1, n)).value)
       /\ Range(DictKeys(QueryResult)) = { DeclaredParts(i)[1] : i \in DOMAIN Declared }
       /\ \A ps \in Reorderings :
             AsMapping(_parse_querystring(JoinAmp(ps))) = AsMapping(QueryResult)

\* C11 witness: three keys that do not conflict, two of them under the same
\* first segment, one of them with two dots
C11_Witness ==
    /\ last.op = "parse_url" /\ LastIsQuery /\ NonConflicting
    /\ Len(Declared) = 3
    /\ \E i, j \in DOMAIN Declared :
          /\ i # j
          /\ DeclaredParts(i)[1] = DeclaredParts(j)[1]
          /\ Len(DeclaredParts(i)) = 3
          /\ Len(DeclaredParts(j)) = 2
          /\ Lookup(QueryResult, DeclaredParts(i)).found
          /\ Lookup(QueryResult, DeclaredParts(j)).found

\* ------------------------------------------------------------------------
\* parse_url on querystrings that exercise the value cast
\* ------------------------------------------------------------------------
\* the values, as written in the URL, of a querystring a=<value>
ValueTokens ==
    { <<"t","r","u","e">>,
      <<"T","R","U","E">>,
      <<"t","R","u","E">>,
      <<"t">>,
      <<"T">>,
      <<"1">>,
      <<"y","e","s">>,
      <<"Y","E","S">>,
      <<"y">>,
      <<"Y">>,
      <<"f","a","l","s","e">>,
      <<"F","a","l","s","e">>,
      <<"f">>,
      <<"F">>,
      <<"0">>,
      <<"n","o">>,
      <<"N","O">>,
      <<"n">>,
      <<"N">>,
      <<"n","u","l","l">>,
      <<"N","U","L","L">>,
      <<"N","u","l","l">>,
      <<"1","2">>,
      <<"-","3">>,
      <<"0","0","7">>,
      <<"0","1">>,
      <<"A","b","c">>,
      <<>>,
      <<"%","2","0","t","r","u","e">>,
      <<"o","n">>,
      <<"1",".","5">>,
      <<"+","5">>,
      <<"%","2","B","5">>,
      <<"1","_","0">>,
      <<"n","u","l">>,
      <<"t","r","u","e","e">>,
      <<"5","x">>,
      <<"0","0">> }

\* number of key=value pairs of a querystring with repeated keys
MaxRepeat == 3

\* the pairs that querystrings with repeated keys are made of
RepeatPairs ==
    { <<"a","=","1">>,
      <<"a","=","1","2">>,
      <<"a","=">>,
      <<"a">>,
      <<"b","=","N","o">>,
      <<"a","=","A","b","c">> }

ValueStrings ==
    { <<"a","=">> \o v : v \in ValueTokens }
    \cup { JoinAmp(ps) : ps \in UNION { [1..n -> RepeatPairs] : n \in 1..MaxRepeat } }

ParseValuesAny == \E qs \in ValueStrings, part \in {"query", "fragment"} : ParseQuery(qs, part)

NextValues == ParseValuesAny \/ Discard

SpecValues == Init /\ [][NextValues]_vars

\* ------------------------------------------------------------------------
\* C12: the tokens
\* ------------------------------------------------------------------------
\* the declared pairs that have the same key as pair i
SameKey(i) == { j \in DOMAIN Declared : Declared[j][1] = Declared[i][1] }

\* the cast value that the result holds for the i-th declared pair: the
\* value under its key, or its element of the list under its key
CastOf(i) ==
    LET v == DictGet(QueryResult, Declared[i][1])
    IN  IF Cardinality(SameKey(i)) = 1 THEN v
        ELSE v.xs[Cardinality({ j \in SameKey(i) : j <= i })]

TrueTokens == { S_true, <<"t">>, <<"1">>, S_yes, <<"y">> }

FalseTokens == { S_false, <<"f">>, <<"0">>, S_no, <<"n">> }

IsToken(v) == Lower(v) \in TrueTokens \cup FalseTokens \cup {S_null}

\* C12: compared without regard to case, the values true, t, 1, yes, y are
\* cast to True, the values false, f, 0, no, n to False and null to None,
\* also where the value would parse as an integer; each value of a
\* querystring or fragment is cast on its own, also inside a list.
C12_Tokens ==
    (last.op = "parse_url")
    => /\ LastIsQuery
       /\ \A i \in DOMAIN Declared :
             /\ DictHas(QueryResult, Declared[i][1])
             /\ Lower(Declared[i][2]) \in TrueTokens => CastOf(i) = VBool(TRUE)
             /\ Lower(Declared[i][2]) \in FalseTokens => CastOf(i) = VBool(FALSE)
             /\ Lower(Declared[i][2]) = S_null => CastOf(i) = VNone
             /\ ~IsToken(Declared[i][2]) => CastOf(i).t \in {"int", "str"}

\* C12 witness: the token 1 cast to True inside a list next to a value that
\* is no token, and a token in mixed case cast under another key
C12_Witness ==
    /\ last.op = "parse_url" /\ LastIsQuery
    /\ Len(Declared) = 3
    /\ Declared[1][2] = <<"1">> /\ Declared[2][2] = <<"A","b","c">>
    /\ Declared[3][2] = <<"N","o">>
    /\ SameKey(1) = {1, 2}
    /\ CastOf(1) = VBool(TRUE)
    /\ CastOf(3) = VBool(FALSE)

\* ------------------------------------------------------------------------
\* C13: integers and strings
\* ------------------------------------------------------------------------
\* C13 as stated: every value that int() accepts in base 10 is cast to that
\* integer, 1 included, and every other value that is no token stays the
\* string it was.
C13_EveryIntegerCast ==
    (last.op = "parse_url")
    => /\ LastIsQuery
       /\ \A i \in DOMAIN Declared :
             /\ PyInt(Declared[i][2]).ok => CastOf(i) = VInt(PyInt(Declared[i][2]).n)
             /\ (~PyInt(Declared[i][2]).ok /\ ~IsToken(Declared[i][2]))
                    => CastOf(i) = VStr(Declared[i][2])

\* C13 amended: every value that is none of the tokens and that int()
\* accepts in base 10 is cast to that integer; the values 1 and 0 are tokens
\* and are cast to True and False; every other value that is no token stays
\* the string it was, case preserved.
C13_NonTokenIntegerCast ==
    (last.op = "parse_url")
    => /\ LastIsQuery
       /\ \A i \in DOMAIN Declared :
             /\ (PyInt(Declared[i][2]).ok /\ ~IsToken(Declared[i][2]))
                    => CastOf(i) = VInt(PyInt(Declared[i][2]).n)
             /\ Declared[i][2] = <<"1">> => CastOf(i) = VBool(TRUE)
             /\ Declared[i][2] = <<"0">> => CastOf(i) = VBool(FALSE)
             /\ (~PyInt(Declared[i][2]).ok /\ ~IsToken(Declared[i][2]))
                    => CastOf(i) = VStr(Declared[i][2])

\* C13 witness: an integer that is no token next to a string in mixed case
C13_Witness ==
    /\ last.op = "parse_url" /\ LastIsQuery
    /\ Len(Declared) = 2
    /\ Declared[1][2] = <<"1","2">> /\ Declared[2][2] = <<"A","b","c">>
    /\ CastOf(1) = VInt(12)
    /\ CastOf(2) = VStr(<<"A","b","c">>)

\* ------------------------------------------------------------------------
\* C14: repeated keys and blank values
\* ------------------------------------------------------------------------
\* the values declared under the key of the i-th pair, left to right
ValuesOf(i) ==
    LET same == SelectSeq(Declared, LAMBDA p : p[1] = Declared[i][1])
    IN  [j \in DOMAIN same |-> same[j][2]]

Netlocs ==
    { u \o h \o p :
        u \in { <<>>, <<"u","@">>, <<"u",":","p","@","s","s","@">> },
        h \in { <<"h">>, <<"H","o","s","t">>, <<"[",":",":","1","]">>, <<"h","o","[",":",":","1","]">>, <<"[","f","e","8","0",":",":","1","%","2","5","e","t","h","0","]">>, <<>>, <<"[",":",":","1">>, <<"[","a","]","b">> },
        p \in { <<>>, <<":">>, <<":","0">>, <<":","6","5","5","3","5">>, <<":","5">>, <<":","x">>, <<":","5",":","6">> } }

\* hostname, port = _get_host_and_port(netloc)
GetHostAndPort ==
    /\ Idle
    /\ \E netloc \in Netlocs :
       \E r \in {_get_host_and_port(netloc)} :
          last' = [op |-> "_get_host_and_port", netloc |-> netloc, out |-> r]
    /\ UNCHANGED <<schemes, regLog, heap>>

NextNetloc == GetHostAndPort \/ Continue

SpecNetloc == Init /\ [][NextNetloc]_vars

\* ------------------------------------------------------------------------
\* C15: hostname and port of a netloc
\* ------------------------------------------------------------------------
\* what follows the last @ of the netloc of the last call
HostInfoPart ==
    IF Contains(last.netloc, "@")
    THEN From(last.netloc, RFind(last.netloc, "@") + 1)
    ELSE last.netloc

\* the text between the first [ of s and the next ]
Bracketed(s) ==
    LET inner == From(s, Find(s, "[") + 1)
    IN  IF Contains(inner, "]") THEN SubSeq(inner, 1, Find(inner, "]") - 1) ELSE inner

\* what follows the first : after the ] that closes the first [ of s
AfterBracket(s) ==
    LET inner == From(s, Find(s, "[") + 1)
        rest  == IF Contains(inner, "]") THEN From(inner, Find(inner, "]") + 1) ELSE <<>>
    IN  IF Contains(rest, ":") THEN From(rest, Find(rest, ":") + 1) ELSE <<>>

BeforeColon(s) == IF Contains(s, ":") THEN SubSeq(s, 1, Find(s, ":") - 1) ELSE s

AfterColon(s) == IF Contains(s, ":") THEN From(s, Find(s, ":") + 1) ELSE <<>>

AllDigits(s) == s # <<>> /\ \A i \in DOMAIN s : IsDigit(s[i])

\* the call returned this hostname, and the port that this port text stands
\* for: none when empty, the integer when all digits
Returned(hostname, port) ==
    /\ last.out.hostname = hostname
    /\ port = <<>> => (last.out.ok /\ last.out.port = VNone)
    /\ AllDigits(port) => (last.out.ok /\ last.out.port = VInt(DigitsValue(port)))

\* C15 as stated: the bracket rule applies when the part after the last @
\* starts with [, and the first-colon rule in every other case.
C15_StartsWithBracket ==
    (last.op = "_get_host_and_port")
    => IF HostInfoPart # <<>> /\ HostInfoPart[1] = "["
       THEN Returned(Bracketed(HostInfoPart), AfterBracket(HostInfoPart))
       ELSE Returned(BeforeColon(HostInfoPart), AfterColon(HostInfoPart))

\* C15 amended: the bracket rule applies when the part after the last @
\* contains a [ anywhere (what precedes the [ is dropped, and without a ]
\* the hostname runs to the end), the first-colon rule when it contains
\* none; the hostname keeps its case; an empty port gives none, a port of
\* digits its integer value, and a port that int() rejects makes the call
\* raise ValueError.
C15_ContainsBracket ==
    (last.op = "_get_host_and_port")
    => /\ IF Contains(HostInfoPart, "[")
          THEN Returned(Bracketed(HostInfoPart), AfterBracket(HostInfoPart))
          ELSE Returned(BeforeColon(HostInfoPart), AfterColon(HostInfoPart))
       /\ ~last.out.ok
             <=> LET port == IF Contains(HostInfoPart, "[")
                             THEN AfterBracket(HostInfoPart)
                             ELSE AfterColon(HostInfoPart)
                 IN  port # <<>> /\ ~PyInt(port).ok

\* C15 witness: a password with an @ in it, a bracketed host and the
\* highest port
C15_Witness ==
    /\ last.op = "_get_host_and_port"
    /\ last.netloc = <<"u",":","p","@","s","s","@","[",":",":","1","]",":","6","5","5","3","5">>
    /\ last.out = [ok |-> TRUE, hostname |-> <<":",":","1">>, port |-> VInt(65535)]

\* ------------------------------------------------------------------------
\* C16: location, hostname and port with and without multiple_netloc
\* ------------------------------------------------------------------------
\* the last operation was parse_url on a string that urlsplit accepts
LastIsUrlString ==
    last.op = "parse_url" /\ last.url.t = "str" /\ urlsplit(last.url.s).ok

LastNetloc == urlsplit(last.url.s).netloc

\* the UrlInfo that the last parse_url returned
LastInfo == heap[last.out.value.id]

\* C16: with multiple_netloc true and a comma in the netloc, location is the
\* list of the comma-separated parts, verbatim and in order, and hostname and
\* port are none; in every other case parse_url succeeds, location is the
\* netloc string and hostname and port are those of the netloc.
C16_LocationList ==
    LastIsUrlString
    => /\ last.out.kind = "return"
       /\ IF last.multiple_netloc /\ Contains(LastNetloc, ",")
          THEN /\ LastInfo.location
                     = VList([i \in DOMAIN Split(LastNetloc, ",") |-> VStr(Split(LastNetloc, ",")[i])])
               /\ LastInfo.hostname = VNone
               /\ LastInfo.port = VNone
          ELSE /\ LastInfo.location = VStr(LastNetloc)
               /\ LastInfo.hostname = UnquoteIf(VStr(_get_host_and_port(LastNetloc).hostname))
               /\ LastInfo.port = _get_host_and_port(LastNetloc).port

\* ------------------------------------------------------------------------
\* C17: path and fullpath
\* ------------------------------------------------------------------------
\* C17: fullpath is the percent-decoded path of the URL, and path is
\* fullpath without its leading slash: fullpath = "/" + path when fullpath
\* starts with a slash, path = fullpath when it does not.
C17_OnlyLeadingSlashRemoved ==
    (LastIsUrlString /\ last.out.kind = "return")
    => /\ LastInfo.fullpath = unquote(urlsplit(last.url.s).path)
       /\ IF LastInfo.fullpath # <<>> /\ LastInfo.fullpath[1] = "/"
          THEN LastInfo.fullpath = <<"/">> \o LastInfo.path
          ELSE LastInfo.path = LastInfo.fullpath

\* the URLs the caller parses before handing the UrlInfo to a transform
ConfigUrls ==
    { <<"p","g",":","/","/","u",":","p","@","h",":","0","/","d","?","a","=","1","#","K","=","1">>,
      <<"p","g",":","/","/","u",":","p","@","h",":","5","/","d","?","t","i","m","e","o","u","t","=","5","&","v","e","r","s","i","o","n","=","1","&","x",".","y","=","2","#","E","N","G","I","N","E","=","z","z","&","B","A","C","K","E","N","D","=","z","z","&","X",".","y","=","2">>,
      <<"p","g",":","/","/","h","/","d","?","c","u","r","r","e","n","t","S","c","h","e","m","a","=","s","&","t","i","m","e","o","u","t",".","c","o","n","n","e","c","t","=","5">>,
      <<"p","g",":","/","/","%","2","5","2","F","v","a","r","%","2","5","2","F","r","u","n","/","M","y","%","2","5","2","0","D","b">>,
      <<"p","g",":","/","/","h","1",":","1",",","h","2",":","2","/","p">>,
      <<"p","g",":","/","/","H","/","d","#","O","P","T","I","O","N","S",".","k","=","v","&","P","O","R","T","=","7">>,
      <<"s",":","/","/">>,
      <<"s","m","t","p",":","/","/","u","s","e","r",":","p","w","@","m","a","i","l",":","5","8","7","?","u","s","e","_","t","l","s","=","t","r","u","e","&","k","e","y","_","p","r","e","f","i","x","=","a","p","p">> }

\* info = parse_url(url, multiple_netloc=m), with no other UrlInfo alive
ParseConfigUrl ==
    /\ heap = <<>>
    /\ \E x \in ConfigUrls, m \in BOOLEAN : ParseUrl(VStr(x), m)

\* config = transform(backend, engine, scheme, info) for a live UrlInfo
BuildConfig ==
    /\ Idle
    /\ \E id \in DOMAIN heap, b \in Builders :
       \E r \in {Build(b, heap[id])} :
          /\ heap' = [heap EXCEPT ![id] = r.info]
          /\ last' = [op |-> "config", builder |-> b, id |-> id,
                      out |-> Return(r.config), before |-> heap]
    /\ UNCHANGED <<schemes, regLog>>

NextConfig == ParseConfigUrl \/ BuildConfig \/ Continue \/ Discard

SpecConfig == Init /\ [][NextConfig]_vars

\* ------------------------------------------------------------------------
\* C18: the fragment merged into the configuration
\* ------------------------------------------------------------------------
\* the last operation handed a UrlInfo to a transform
LastIsConfig == last.op = "config"

\* the UrlInfo as it was when the transform was called
InfoBefore == last.before[last.id]

\* the items of the configuration the transform returned
LastConfig == last.out.value.items

\* the items of the configuration the same call returns for the same UrlInfo
\* without its fragment: the keys the transform defines by itself
WithoutFragment == Build(last.builder, [InfoBefore EXCEPT !.fragment = <<>>]).config.items

\* C18: whatever the registry and the transform, a top-level key of the
\* fragment that the transform does not define by itself is in the returned
\* mapping with the typed value of the fragment, and a key of the fragment
\* that the transform defines keeps the transform's value.
C18_FragmentMerged ==
    LastIsConfig
    => \A i \in DOMAIN InfoBefore.fragment :
          IF DictHas(WithoutFragment, InfoBefore.fragment[i][1])
          THEN DictGet(LastConfig, InfoBefore.fragment[i][1])
                  = DictGet(WithoutFragment, InfoBefore.fragment[i][1])
          ELSE /\ DictHas(LastConfig, InfoBefore.fragment[i][1])
               /\ DictGet(LastConfig, InfoBefore.fragment[i][1]) = InfoBefore.fragment[i][2]

\* ------------------------------------------------------------------------
\* C19: the generic database configuration
\* ------------------------------------------------------------------------
\* C19: the generic database builder returns ENGINE = engine, NAME = path,
\* USER = username or "", PASSWORD = password or "", HOST = hostname,
\* PORT = the integer port whenever the URL has one and "" when it has none,
\* OPTIONS = the typed query mapping.
C19_GenericDatabaseConfig ==
    (LastIsConfig /\ last.builder.transform = "cockroachdb_config_from_url")
    => /\ DictGet(LastConfig, K_ENGINE) = VStr(last.builder.engine)
       /\ DictGet(LastConfig, K_NAME) = VStr(InfoBefore.path)
       /\ DictGet(LastConfig, K_USER) = OrElse(InfoBefore.username, VStr(<<>>))
       /\ DictGet(LastConfig, K_PASSWORD) = OrElse(InfoBefore.password, VStr(<<>>))
       /\ DictGet(LastConfig, K_HOST) = InfoBefore.hostname
       /\ DictGet(LastConfig, K_PORT)
             = (IF InfoBefore.port # VNone THEN InfoBefore.port ELSE VStr(<<>>))
       /\ DictGet(LastConfig, K_OPTIONS) = VDict(InfoBefore.query)

\* ------------------------------------------------------------------------
\* C20: a UrlInfo handed to a transform
\* ------------------------------------------------------------------------
\* C20: a transform or builder leaves the UrlInfo it is handed as parse_url
\* made it, fields and contents of query and fragment alike, and called
\* again with the same UrlInfo it returns an equal configuration.
C20_UrlInfoNeverModified ==
    LastIsConfig
    => /\ heap = last.before
       /\ AsMapping(Build(last.builder, heap[last.id]).config.items) = AsMapping(LastConfig)

\* ------------------------------------------------------------------------
\* Registry.validate
\* ------------------------------------------------------------------------
\* validate with the syntax check left out: whatever precedes the first ":"
validate_any_colon(schemes_, self, data) ==
    LET i == Find(data, ":")
    IN  [schemes |-> schemes_,
         out |-> Return(IF i > 1 THEN VStr(Lower(SubSeq(data, 1, i - 1))) ELSE VNone)]

\* self.validate(data): the scheme token of data when there is one and it is
\* syntactically valid, else None; [schemes, out]
validate(schemes_, self, data) ==
    LET u == RemoveUnsafe(LStrip(data))
        i == Find(u, ":")
        valid == /\ i > 1
                 /\ IsAlpha(u[1])
                 /\ \A j \in 1..(i - 1) : u[j] \in SchemeChars
    IN  [schemes |-> schemes_,
         out |-> Return(IF valid THEN VStr(Lower(SubSeq(u, 1, i - 1))) ELSE VNone)]

\* self.validate(data), for data a string
Validate(self, data) ==
    /\ Idle
    /\ \E r \in {validate(schemes[self], self, data)} :
          /\ schemes' = [schemes EXCEPT ![self] = r.schemes]
          /\ last' = [op |-> "validate", self |-> self, data |-> data,
                      out |-> r.out, before |-> schemes]
    /\ UNCHANGED <<regLog, heap>>

ValidateAny == \E self \in Registries, url \in UrlStrings : Validate(self, url)

NextValidate == ValidateAny \/ Continue

SpecValidate == InitParse /\ [][NextValidate]_vars

LastIsValidate == last.op = "validate"

\* what parse does with the same string on the same registry
ParseOfValidated == parse(last.before[last.self], last.self, VStr(last.data)).out

\* parse refuses the string as one that is not a URL
RefusedAsNoUrl(out) ==
    /\ RaisedMessage(out)
    /\ IsSubstring(<<" is invalid, only full dsn urls (scheme://host...) are allowed">>,
                   out.exc.message.s)

LastIsRegister == last.op = "register"

\* the schemes a register call binds
BoundSchemes == { last.args[i][1] : i \in DOMAIN last.args }

\* the engine a register call binds scheme k to: that of its last pair for k
BoundEngine(k) ==
    last.args[CHOOSE i \in DOMAIN last.args :
                 /\ last.args[i][1] = k
                 /\ \A j \in DOMAIN last.args : last.args[j][1] = k => j <= i][2]

\* C22: a register call on registry R binding the schemes S changes only R's
\* entries for S: every scheme of S is bound in R to the call's callback and
\* engine, every other scheme of R is there exactly when it was and keeps its
\* (engine, callback), and the table of every other registry is unchanged, so
\* that a scheme several registries know resolves in each to its own entry.
C22_RegisterFrame ==
    LastIsRegister
    => /\ \A r \in Registries \ {last.self} : schemes[r] = last.before[r]
       /\ \A k \in BoundSchemes :
             /\ DictHas(schemes[last.self], k)
             /\ DictGet(schemes[last.self], k)
                   = [callback |-> last.callback, engine |-> BoundEngine(k)]
       /\ \A k \in (Range(DictKeys(schemes[last.self]))
                      \cup Range(DictKeys(TableBefore))) \ BoundSchemes :
             /\ DictHas(schemes[last.self], k) /\ DictHas(TableBefore, k)
             /\ DictGet(schemes[last.self], k) = DictGet(TableBefore, k)

\* C22 witness: a register call binds a scheme that another registry already
\* knows, and the two registries hold different entries for it
C22_Witness ==
    /\ LastIsRegister
    /\ \E r \in Registries \ {last.self}, k \in BoundSchemes :
          /\ DictHas(schemes[r], k)
          /\ DictGet(schemes[r], k).engine # DictGet(schemes[last.self], k).engine
          /\ DictGet(schemes[r], k).callback # DictGet(schemes[last.self], k).callback

\* ------------------------------------------------------------------------
\* Concurrent parse calls on one registry
\* ------------------------------------------------------------------------
\* a parse call in progress: its argument, the items of data.items() the loop
\* has not reached, its locals errors and parsed_data, and its outcome once
\* it has one
CallFrame(data) ==
    [data |-> data, pc |-> "running",
     rest |-> IF IsDict(data) THEN data.items ELSE <<>>,
     errors |-> <<>>, parsed_data |-> <<>>, out |-> Return(VNone)]

\* one step of Service.parse(data) in the frame th, on the table schemes_:
\* one round of the loop over data.items(), the end of the loop, the call of
\* _parse for a string, or the refusal of any other input; [frame, schemes]
ParseStep(schemes_, self, th) ==
    LET Done(out) == [th EXCEPT !.pc = "done", !.out = out]
    IN  IF IsDict(th.data)
        THEN IF th.rest = <<>>
             THEN [frame |-> Done(IF th.errors # <<>>
                                  THEN Raise(ValidationError(VDict(th.errors)).exc)
                                  ELSE Return(VDict(th.parsed_data))),
                   schemes |-> schemes_]
             ELSE LET key   == th.rest[1][1]
                      value == th.rest[1][2]
                      Entry(r) ==
                          [frame |->
                              IF r.out.kind = "return"
                              THEN [th EXCEPT !.rest = Tail(th.rest),
                                              !.parsed_data = DictSet(@, key, r.out.value)]
                              ELSE IF IsValidationError(r.out.exc)
                              THEN [th EXCEPT !.rest = Tail(th.rest),
                                              !.errors = DictSet(@, key, r.out.exc)]
                              ELSE Done(r.out),
                           schemes |-> r.schemes]
                  IN  IF IsDict(value)
                      THEN [frame |-> [th EXCEPT !.rest = Tail(th.rest),
                                                 !.parsed_data = DictSet(@, key, value)],
                            schemes |-> schemes_]
                      ELSE Entry(_parse(schemes_, self, value))
        ELSE IF th.data.t = "str"
        THEN LET Single(r) == [frame |-> Done(r.out), schemes |-> r.schemes]
             IN  Single(_parse(schemes_, self, th.data))
        ELSE [frame |-> Done(RaiseValidationError(
                            VStr(<<"Invalid input type: ", TypeName(th.data)>>))),
              schemes |-> schemes_]

\* the number of parse calls in flight at once
Threads == 2

\* two threads call self.parse at the same time
StartCalls ==
    /\ Idle
    /\ \E self \in Registries, datas \in [1..Threads -> CoreInputs] :
          last' = [op |-> "concurrent", self |-> self,
                   frames |-> [t \in 1..Threads |-> CallFrame(datas[t])],
                   before |-> schemes]
    /\ UNCHANGED <<schemes, regLog, heap>>

\* the scheduler lets one running call take its next step
StepCall ==
    /\ last.op = "concurrent"
    /\ \E t \in 1..Threads :
          /\ last.frames[t].pc = "running"
          /\ \E r \in {ParseStep(schemes[last.self], last.self, last.frames[t])} :
                /\ schemes' = [schemes EXCEPT ![last.self] = r.schemes]
                /\ last' = [last EXCEPT !.frames[t] = r.frame]
    /\ UNCHANGED <<regLog, heap>>

\* every call has returned or raised; the callers go on
JoinCalls ==
    /\ last.op = "concurrent"
    /\ \A t \in 1..Threads : last.frames[t].pc = "done"
    /\ last' = NoOp
    /\ UNCHANGED <<schemes, regLog, heap>>

NextThreads == StartCalls \/ StepCall \/ JoinCalls

SpecThreads == InitParse /\ [][NextThreads]_vars

LastIsConcurrent == last.op = "concurrent"

\* C23: no step of a parse call, of a string or of a mapping, succeeding or
\* failing, writes a scheme table or a UrlInfo any other call can see; and in
\* every interleaving of the steps of concurrent parse calls on one registry
\* (no register call running), each call ends with the outcome parse has for
\* its argument when it runs alone.
C23_ParseIsolated ==
    LastIsConcurrent
    => /\ schemes = last.before
       /\ heap = <<>>
       /\ \A t \in 1..Threads :
             last.frames[t].pc = "done"
             => last.frames[t].out = parse(last.before[last.self], last.self,
                                           last.frames[t].data).out

\* C23 witness: two batch calls running at once on a populated registry: the
\* first has been through both of its entries, one parsed and one failed, and
\* has not returned yet, while the second has already raised its errors
C23_Witness ==
    /\ LastIsConcurrent
    /\ DictHas(schemes[last.self], S_pg)
    /\ last.frames[1].pc = "running" /\ last.frames[1].rest = <<>>
    /\ IsDict(last.frames[1].data)
    /\ Len(last.frames[1].parsed_data) = 1 /\ Len(last.frames[1].errors) = 1
    /\ last.frames[2].pc = "done" /\ IsDict(last.frames[2].data)
    /\ RaisedDict(last.frames[2].out)

\* ------------------------------------------------------------------------
\* loads.py: the patch of django.conf.Settings
\* ------------------------------------------------------------------------
\* the five registries of django_service_urls.services
ServiceRegistries == {"db", "cache", "storage", "task", "email"}

\* some of the register calls made while django_service_urls.services is
\* imported
ServiceScript ==
    << RegCall("db", << <<<<"p","o","s","t","g","r","e","s">>, <<"d","j","a","n","g","o",".","d","b",".","b","a","c","k","e","n","d","s",".","p","o","s","t","g","r","e","s","q","l">>>>,
                        <<<<"p","g","s","q","l">>, <<"d","j","a","n","g","o",".","d","b",".","b","a","c","k","e","n","d","s",".","p","o","s","t","g","r","e","s","q","l">>>> >>,
               "postgresql_config_from_url"),
       RegCall("db", << <<<<"c","o","c","k","r","o","a","c","h">>, <<"d","j","a","n","g","o","_","c","o","c","k","r","o","a","c","h","d","b">>>> >>, "cockroachdb_config_from_url"),
       RegCall("cache", << <<<<"m","e","m","o","r","y">>, <<"d","j","a","n","g","o",".","c","o","r","e",".","c","a","c","h","e",".","b","a","c","k","e","n","d","s",".","l","o","c","m","e","m",".","L","o","c","M","e","m","C","a","c","h","e">>>> >>,
               "memory_config_from_url"),
       RegCall("storage", << <<<<"s","3">>, <<"s","t","o","r","a","g","e","s",".","b","a","c","k","e","n","d","s",".","s","3",".","S","3","S","t","o","r","a","g","e">>>> >>,
               "storages_config_from_url"),
       RegCall("task", << <<<<"d","u","m","m","y">>, <<"d","j","a","n","g","o",".","t","a","s","k","s",".","b","a","c","k","e","n","d","s",".","d","u","m","m","y",".","D","u","m","m","y","B","a","c","k","e","n","d">>>> >>,
               "tasks_smtp_config_url"),
       RegCall("email", << <<<<"s","m","t","p">>, <<"d","j","a","n","g","o",".","c","o","r","e",".","m","a","i","l",".","b","a","c","k","e","n","d","s",".","s","m","t","p",".","E","m","a","i","l","B","a","c","k","e","n","d">>>>,
                           <<<<"s","m","t","p","s">>, <<"d","j","a","n","g","o",".","c","o","r","e",".","m","a","i","l",".","b","a","c","k","e","n","d","s",".","s","m","t","p",".","E","m","a","i","l","B","a","c","k","e","n","d">>>> >>,
               "email_smtp_config_url"),
       RegCall("email", << <<<<"c","o","n","s","o","l","e">>, <<"d","j","a","n","g","o",".","c","o","r","e",".","m","a","i","l",".","b","a","c","k","e","n","d","s",".","c","o","n","s","o","l","e",".","E","m","a","i","l","B","a","c","k","e","n","d">>>> >>,
               "email_console_config_url") >>

\* the settings patched_init parses, each with its registry
ParsedSettings ==
    << [name |-> <<"D","A","T","A","B","A","S","E","S">>, registry |-> "db"],
       [name |-> <<"C","A","C","H","E","S">>, registry |-> "cache"],
       [name |-> <<"S","T","O","R","A","G","E","S">>, registry |-> "storage"],
       [name |-> <<"T","A","S","K","S">>, registry |-> "task"] >>

N_EMAIL_BACKEND == <<"E","M","A","I","L","_","B","A","C","K","E","N","D">>

\* the calls made during one construction, in order: the names of the
\* settings handed to parse, and this for Django's own Settings.__init__
OriginalInit == <<"o","r","i","g","i","n","a","l","_","i","n","i","t">>

\* getattr(module, name, None) on the attributes of the settings module
GetAttr(attrs, name) == DictGetOr(attrs, name, VNone)

RECURSIVE EmailSetattrLoop(_, _)
\* for k, v in email_config.items(): setattr(module, f"EMAIL_{...}", v)
EmailSetattrLoop(attrs, items) ==
    IF items = <<>> THEN attrs
    ELSE EmailSetattrLoop(
             DictSet(attrs,
                     <<"E","M","A","I","L","_">> \o (IF items[1][1] = K_ENGINE THEN <<"B","A","C","K","E","N","D">> ELSE items[1][1]),
                     items[1][2]),
             Tail(items))

RECURSIVE ParseSettingsLoop(_, _, _, _)
\* the four `if x := getattr(module, NAME, None): module.NAME = svc.parse(x)`
\* of patched_init, in order; an exception of parse ends the construction
ParseSettingsLoop(tables, todo, attrs, events) ==
    IF todo = <<>> THEN [attrs |-> attrs, events |-> events, out |-> Return(VNone)]
    ELSE LET x == GetAttr(attrs, todo[1].name)
             After(r) ==
                 IF r.out.kind = "return"
                 THEN ParseSettingsLoop(tables, Tail(todo),
                                        DictSet(attrs, todo[1].name, r.out.value),
                                        Append(events, todo[1].name))
                 ELSE [attrs |-> attrs, events |-> Append(events, todo[1].name),
                       out |-> r.out]
         IN  IF ~Truthy(x)
             THEN ParseSettingsLoop(tables, Tail(todo), attrs, events)
             ELSE After(parse(tables[todo[1].registry], todo[1].registry, x))

\* the EMAIL_BACKEND block of patched_init: try ... except ValidationError: pass
EmailSettings(tables, attrs, events) ==
    LET x == GetAttr(attrs, N_EMAIL_BACKEND)
        After(r) ==
            IF r.out.kind = "return"
            THEN [attrs |-> EmailSetattrLoop(attrs, r.out.value.items),
                  events |-> Append(events, N_EMAIL_BACKEND), out |-> Return(VNone)]
            ELSE IF IsValidationError(r.out.exc)
            THEN [attrs |-> attrs, events |-> Append(events, N_EMAIL_BACKEND),
                  out |-> Return(VNone)]
            ELSE [attrs |-> attrs, events |-> Append(events, N_EMAIL_BACKEND),
                  out |-> r.out]
    IN  IF ~Truthy(x)
        THEN [attrs |-> attrs, events |-> events, out |-> Return(VNone)]
        ELSE After(parse(tables["email"], "email", x))

RECURSIVE patched_init_init_first(_, _, _, _)
\* patched_init as it would be if it called original_init before parsing
patched_init_init_first(wraps, tables, attrs, events) ==
    IF wraps = 0
    THEN [attrs |-> attrs, events |-> Append(events, OriginalInit), out |-> Return(VNone)]
    ELSE LET Email(p) ==
                 IF p.out.kind = "raise" THEN p
                 ELSE EmailSettings(tables, p.attrs, p.events)
             Parsed(o) ==
                 IF o.out.kind = "raise" THEN o
                 ELSE Email(ParseSettingsLoop(tables, ParsedSettings, o.attrs, o.events))
         IN  Parsed(patched_init_init_first(wraps - 1, tables, attrs, events))

RECURSIVE patched_init_lenient(_, _, _, _)
\* patched_init as it would be if a failing parse of DATABASES, CACHES,
\* STORAGES or TASKS were passed over like that of EMAIL_BACKEND
patched_init_lenient(wraps, tables, attrs, events) ==
    IF wraps = 0
    THEN [attrs |-> attrs, events |-> Append(events, OriginalInit), out |-> Return(VNone)]
    ELSE LET Original(e) ==
                 IF e.out.kind = "raise" THEN e
                 ELSE patched_init_lenient(wraps - 1, tables, e.attrs, e.events)
             Email(p) == Original(EmailSettings(tables, p.attrs, p.events))
         IN  Email(ParseSettingsLoop(tables, ParsedSettings, attrs, events))

RECURSIVE patched_init(_, _, _, _)
\* Settings.__init__(self, settings_module) when wraps layers of patched_init
\* sit on Django's own __init__ (none: Django's own __init__ runs alone):
\* the attributes of the settings module afterwards, the calls made, and the
\* outcome; [attrs, events, out]
patched_init(wraps, tables, attrs, events) ==
    IF wraps = 0
    THEN [attrs |-> attrs, events |-> Append(events, OriginalInit), out |-> Return(VNone)]
    ELSE LET Original(e) ==
                 IF e.out.kind = "raise" THEN e
                 ELSE patched_init(wraps - 1, tables, e.attrs, e.events)
             Email(p) ==
                 IF p.out.kind = "raise" THEN p
                 ELSE Original(EmailSettings(tables, p.attrs, p.events))
         IN  Email(ParseSettingsLoop(tables, ParsedSettings, attrs, events))

\* patch() with the hasattr test left out
patch_unguarded(cls) ==
    [cls EXCEPT !.has_original = TRUE, !.init_wraps = @ + 1]

\* patch() on the class object django.conf.Settings: has_original stands for
\* hasattr(Settings, "_django_service_urls_original_init"), init_wraps for
\* the layers of patched_init that Settings.__init__ is
patch(cls) ==
    IF ~cls.has_original
    THEN [cls EXCEPT !.has_original = TRUE, !.init_wraps = @ + 1]
    ELSE cls

\* the settings modules of the model: each of DATABASES, CACHES, STORAGES,
\* TASKS unset, empty or a mapping of aliases, EMAIL_BACKEND unset, a URL or
\* a backend path
DatabasesChoices ==
    { <<>>,
      << <<<<"D","A","T","A","B","A","S","E","S">>, DictObj(1, <<>>)>> >>,
      << <<<<"D","A","T","A","B","A","S","E","S">>, DictObj(1, << <<<<"d","e","f","a","u","l","t">>, VStr(<<"p","o","s","t","g","r","e","s",":","/","/","u",":","p","@","h",":","5","/","d">>)>> >>)>> >>,
      << <<<<"D","A","T","A","B","A","S","E","S">>, DictObj(1, << <<<<"d","e","f","a","u","l","t">>, VStr(<<"z","z",":","/","/","h">>)>> >>)>> >>,
      << <<<<"D","A","T","A","B","A","S","E","S">>, DictObj(1, << <<<<"d","e","f","a","u","l","t">>, ConfigA>> >>)>> >>,
      << <<<<"D","A","T","A","B","A","S","E","S">>, DictObj(1, << <<<<"d","e","f","a","u","l","t">>, VStr(<<"p","o","s","t","g","r","e","s",":","/","/","h",":","x">>)>> >>)>> >>,
      << <<<<"D","A","T","A","B","A","S","E","S">>, DictObj(1, << <<<<"d","e","f","a","u","l","t">>, VStr(<<"p","g","s","q","l",":","/","/","h","/","d">>)>>,
                                      <<<<"r","e","p","l","i","c","a">>, VStr(<<"h">>)>> >>)>> >> }

CachesChoices ==
    { <<>>,
      << <<<<"C","A","C","H","E","S">>, DictObj(3, << <<<<"d","e","f","a","u","l","t">>, VStr(<<"m","e","m","o","r","y",":","/","/","?","t","i","m","e","o","u","t","=","5">>)>> >>)>> >>,
      << <<<<"C","A","C","H","E","S">>, DictObj(3, << <<<<"d","e","f","a","u","l","t">>, VStr(<<"z","z",":","/","/">>)>> >>)>> >> }

StoragesChoices ==
    { <<>>, << <<<<"S","T","O","R","A","G","E","S">>, DictObj(4, << <<<<"d","e","f","a","u","l","t">>, VStr(<<"s","3",":","/","/","b","u","c","k","e","t">>)>> >>)>> >> }

TasksChoices ==
    { <<>>, << <<<<"T","A","S","K","S">>, DictObj(5, << <<<<"d","e","f","a","u","l","t">>, VStr(<<"d","u","m","m","y",":","/","/">>)>> >>)>> >> }

EmailChoices ==
    { <<>>,
      << <<N_EMAIL_BACKEND, VStr(<<"s","m","t","p","s",":","/","/","u",":","p","@","h",":","4","2","/","?","t","i","m","e","o","u","t","=","3","0">>)>> >>,
      << <<N_EMAIL_BACKEND, VStr(<<"d","j","a","n","g","o",".","c","o","r","e",".","m","a","i","l",".","b","a","c","k","e","n","d","s",".","c","o","n","s","o","l","e",".","E","m","a","i","l","B","a","c","k","e","n","d">>)>> >>,
      << <<N_EMAIL_BACKEND, VStr(<<"z","z",":","/","/","h">>)>> >>,
      << <<N_EMAIL_BACKEND, VStr(<<"c","o","n","s","o","l","e",":","/","/">>)>> >>,
      << <<N_EMAIL_BACKEND, VStr(<<"s","m","t","p",":","/","/","h",":","x">>)>> >> }

SettingsModules ==
    { d \o c \o s \o t \o e :
        d \in DatabasesChoices, c \in CachesChoices, s \in StoragesChoices,
        t \in TasksChoices, e \in EmailChoices }

\* how many times patch() is called
MaxPatches == 2

\* heap[1] is the class django.conf.Settings, heap[2] the settings module;
\* patches counts the calls of patch(), parsed tells that a construction
\* under the patch has already returned for this module
InitSettings ==
    /\ regLog = ServiceScript
    /\ schemes = Replay([r \in ServiceRegistries |-> EmptySchemes], ServiceScript)
    /\ \E attrs \in SettingsModules :
          heap = << [t |-> "class", has_original |-> FALSE, init_wraps |-> 0, patches |-> 0],
                    [t |-> "module", attrs |-> attrs, parsed |-> FALSE] >>
    /\ last = NoOp

\* patch(), at the import of django_service_urls.loads or called again
Patch ==
    /\ Idle
    /\ heap[1].patches < MaxPatches
    /\ heap' = [heap EXCEPT ![1] = [patch(@) EXCEPT !.patches = @ + 1]]
    /\ last' = [op |-> "patch", before |-> heap[1]]
    /\ UNCHANGED <<schemes, regLog>>

\* Settings(settings_module)
Construct ==
    /\ Idle
    /\ \E r \in {patched_init(heap[1].init_wraps, schemes, heap[2].attrs, <<>>)} :
          /\ heap' = [heap EXCEPT ![2] =
                        [@ EXCEPT !.attrs = r.attrs,
                                  !.parsed = @ \/ (heap[1].init_wraps > 0 /\ r.out.kind = "return")]]
          /\ last' = [op |-> "Settings", before |-> heap[2], wraps |-> heap[1].init_wraps,
                      events |-> r.events, out |-> r.out]
    /\ UNCHANGED <<schemes, regLog>>

NextSettings == Patch \/ Construct \/ Continue

SpecSettings == InitSettings /\ [][NextSettings]_vars

\* ------------------------------------------------------------------------
\* C24: what a construction of Settings does under the patch
\* ------------------------------------------------------------------------
LastIsSettings == last.op = "Settings"

\* the attributes of the settings module before and after the construction
AttrsBefore == last.before.attrs

AttrsAfter == heap[2].attrs

\* the attribute name is as it was: unset as before, or the same value
SameAttr(name) ==
    /\ DictHas(AttrsAfter, name) <=> DictHas(AttrsBefore, name)
    /\ GetAttr(AttrsAfter, name) = GetAttr(AttrsBefore, name)

\* the outcome of the parse of the i-th parsed setting, as it was before
SettingParse(i) ==
    parse(schemes[ParsedSettings[i].registry], ParsedSettings[i].registry,
          GetAttr(AttrsBefore, ParsedSettings[i].name)).out

\* the i-th parsed setting is set, non-empty, and its parse fails
SettingFails(i) ==
    /\ Truthy(GetAttr(AttrsBefore, ParsedSettings[i].name))
    /\ SettingParse(i).kind = "raise"

\* a parsed setting fails
SomeSettingFails == \E i \in DOMAIN ParsedSettings : SettingFails(i)

FirstFailing ==
    CHOOSE i \in DOMAIN ParsedSettings :
        SettingFails(i) /\ \A j \in 1..(i - 1) : ~SettingFails(j)

\* the outcome of the parse of EMAIL_BACKEND, as it was before
EmailParse == parse(schemes["email"], "email", GetAttr(AttrsBefore, N_EMAIL_BACKEND)).out

\* EMAIL_BACKEND is set, non-empty, and its parse returns a configuration
EmailIsUrl ==
    /\ Truthy(GetAttr(AttrsBefore, N_EMAIL_BACKEND))
    /\ EmailParse.kind = "return"

\* the name of the setting the key k of an email configuration goes to
EmailSetting(k) == <<"E","M","A","I","L","_">> \o (IF k = K_ENGINE THEN <<"B","A","C","K","E","N","D">> ELSE k)

\* how many times Django's own __init__ ran in the construction
OriginalInits == Cardinality({ i \in DOMAIN last.events : last.events[i] = OriginalInit })

\* C24: once patch() has been called, however often, Settings.__init__ is one
\* layer of patched_init on Django's own __init__, and every construction
\* replaces each of DATABASES, CACHES, STORAGES, TASKS that is set and
\* non-empty by its parsed form (one that is unset or empty stays as it is),
\* sets EMAIL_BACKEND and the EMAIL_<KEY> settings from a URL EMAIL_BACKEND,
\* and runs Django's own __init__ after all this, once when the construction
\* returns and not at all when it raises; when the parse of DATABASES,
\* CACHES, STORAGES or TASKS fails the construction raises that error,
\* Django's own __init__ is not run and no later setting is touched.
C24_ParseThenOriginalInit ==
    /\ heap # <<>> /\ heap[1].t = "class" /\ heap[1].patches >= 1
          => heap[1].has_original /\ heap[1].init_wraps = 1
    /\ (LastIsSettings /\ last.wraps >= 1)
       => /\ \A i \in DOMAIN ParsedSettings :
                IF /\ Truthy(GetAttr(AttrsBefore, ParsedSettings[i].name))
                   /\ \A j \in 1..i : ~SettingFails(j)
                THEN GetAttr(AttrsAfter, ParsedSettings[i].name) = SettingParse(i).value
                ELSE SameAttr(ParsedSettings[i].name)
          /\ IF SomeSettingFails
             THEN /\ last.out = SettingParse(FirstFailing)
                  /\ OriginalInits = 0
                  /\ \A k \in Range(DictKeys(AttrsAfter)) \cup Range(DictKeys(AttrsBefore)) :
                        k \notin { ParsedSettings[i].name : i \in DOMAIN ParsedSettings }
                        => SameAttr(k)
             ELSE /\ IF EmailIsUrl
                     THEN \A i \in DOMAIN EmailParse.value.items :
                             GetAttr(AttrsAfter, EmailSetting(EmailParse.value.items[i][1]))
                                = EmailParse.value.items[i][2]
                     ELSE SameAttr(N_EMAIL_BACKEND)
                  /\ OriginalInits = (IF last.out.kind = "return" THEN 1 ELSE 0)
          /\ \A i \in DOMAIN last.events :
                last.events[i] = OriginalInit => i = Len(last.events)

\* C24 witness: after two calls of patch(), a construction parsed the four
\* settings, expanded the URL of EMAIL_BACKEND and then ran Django's own
\* __init__
C24_Witness ==
    /\ LastIsSettings /\ heap[1].patches = 2
    /\ last.events = <<ParsedSettings[1].name, ParsedSettings[2].name, ParsedSettings[3].name,
                       ParsedSettings[4].name, N_EMAIL_BACKEND, OriginalInit>>
    /\ last.out.kind = "return"
    /\ GetAttr(AttrsAfter, <<"E","M","A","I","L","_","P","O","R","T">>) = VInt(42)
    /\ IsDict(DictGet(GetAttr(AttrsAfter, ParsedSettings[1].name).items, <<"d","e","f","a","u","l","t">>))

\* ------------------------------------------------------------------------
\* C25: the errors a construction passes over
\* ------------------------------------------------------------------------
\* EMAIL_BACKEND and every EMAIL_<KEY> setting are as they were
EmailAttrsUnchanged ==
    \A k \in Range(DictKeys(AttrsAfter)) \cup Range(DictKeys(AttrsBefore)) :
        k \notin { ParsedSettings[i].name : i \in DOMAIN ParsedSettings } => SameAttr(k)

\* C25: a construction under the patch passes over one error only, that of
\* an EMAIL_BACKEND string without a scheme, which is no URL: no setting is
\* changed and the construction returns. Every other failing parse, of
\* DATABASES, CACHES, STORAGES, TASKS or of an EMAIL_BACKEND that is a URL
\* (one with an unregistered scheme, say), is raised by the construction.
C25_OnlyNotUrlSwallowed ==
    (LastIsSettings /\ last.wraps >= 1)
    => IF SomeSettingFails
       THEN last.out = SettingParse(FirstFailing)
       ELSE (/\ GetAttr(AttrsBefore, N_EMAIL_BACKEND).t = "str"
             /\ GetAttr(AttrsBefore, N_EMAIL_BACKEND).s # <<>>)
            => IF urlsplit(GetAttr(AttrsBefore, N_EMAIL_BACKEND).s).scheme = <<>>
               THEN last.out.kind = "return" /\ EmailAttrsUnchanged
               ELSE EmailParse.kind = "raise" => last.out = EmailParse

\* ------------------------------------------------------------------------
\* C30: a second construction for the same settings module
\* ------------------------------------------------------------------------
\* C30: a construction under the patch for a settings module that an earlier
\* construction under the patch has returned for raises no error and leaves
\* every setting of the module as the earlier one left it: the parsed
\* mappings of DATABASES, CACHES, STORAGES, TASKS pass through, and
\* EMAIL_BACKEND, now a backend path, and the EMAIL_<KEY> settings stay.
C30_SecondConstruction ==
    (LastIsSettings /\ last.wraps >= 1 /\ last.before.parsed)
    => /\ last.out.kind = "return"
       /\ AttrsAfter = AttrsBefore

\* C30 witness: the second construction for a module whose DATABASES held a
\* URL and whose EMAIL_BACKEND was an smtps URL: both were handed to parse
\* again, as a mapping of mappings and as a backend path
C30_Witness ==
    /\ LastIsSettings /\ last.wraps >= 1 /\ last.before.parsed
    /\ \E i, j \in DOMAIN last.events :
          last.events[i] = ParsedSettings[1].name /\ last.events[j] = N_EMAIL_BACKEND
    /\ DictGet(DictGet(GetAttr(AttrsBefore, ParsedSettings[1].name).items, <<"d","e","f","a","u","l","t">>).items, K_PORT) = VInt(5)
    /\ GetAttr(AttrsBefore, N_EMAIL_BACKEND) = VStr(<<"d","j","a","n","g","o",".","c","o","r","e",".","m","a","i","l",".","b","a","c","k","e","n","d","s",".","s","m","t","p",".","E","m","a","i","l","B","a","c","k","e","n","d">>)
    /\ GetAttr(AttrsBefore, <<"E","M","A","I","L","_","P","O","R","T">>) = VInt(42)
    /\ last.out.kind = "return"

\* ------------------------------------------------------------------------
\* C26: percent-decoding between the URL and the database configuration
\* ------------------------------------------------------------------------
\* NAME, USER, PASSWORD and HOST of the last configuration are the single
\* percent-decodings of the path (without its leading slash), the user name,
\* the password and the host name of the URL x
DecodedOnce(x) ==
    LET sp == urlsplit(x)
        ui == _userinfo(sp.netloc)
    IN  /\ DictGet(LastConfig, K_NAME)
              = VStr(unquote(IF sp.path # <<>> THEN Tail(sp.path) ELSE <<>>))
        /\ DictGet(LastConfig, K_USER)
              = VStr(unquote(IF ui.username # VNone THEN ui.username.s ELSE <<>>))
        /\ DictGet(LastConfig, K_PASSWORD)
              = VStr(unquote(IF ui.password # VNone THEN ui.password.s ELSE <<>>))
        /\ ~Contains(sp.netloc, ",")
              => DictGet(LastConfig, K_HOST)
                    = VStr(unquote(_get_host_and_port(sp.netloc).hostname))

\* C26: a database transform handed the UrlInfo that parse_url made of a URL
\* returns NAME, USER, PASSWORD and HOST percent-decoded exactly once: they
\* equal the single percent-decoding of the URL's components, so that "%25"
\* followed by two hex digits comes out as "%" and those digits.
C26_DecodedOnce ==
    (LastIsConfig /\ last.builder.self = "db")
    => \A x \in ConfigUrls, m \in BOOLEAN :
          (/\ ParseUrlString(urlsplit(x), m).ok
           /\ ParseUrlString(urlsplit(x), m).info = InfoBefore)
          => DecodedOnce(x)

\* ------------------------------------------------------------------------
\* ValidationError built from strings, mappings and other ValidationErrors
\* ------------------------------------------------------------------------
\* how many ValidationError objects are built
MaxErrors == 3

ErrorStrings == { VStr(<<"I","n","n","e","r">>), VStr(<<"O","t","h","e","r">>) }

ErrorKeys == << <<"k","1">>, <<"k","2">> >>

\* the arguments of the constructor: a string, a ValidationError built
\* before, or a mapping of up to two keys to strings and such errors
ErrorMessages(built) ==
    LET values == ErrorStrings \cup Range(built)
    IN  ErrorStrings \cup Range(built)
          \cup UNION { { VDict([i \in 1..n |-> <<ErrorKeys[i], vs[i]>>]) :
                           vs \in [1..n -> values] } : n \in 0..Len(ErrorKeys) }

\* e = ValidationError(message); the errors built stay alive on the heap
NewError ==
    /\ Idle
    /\ Len(heap) < MaxErrors
    /\ \E message \in ErrorMessages(heap) :
          \E r \in {ValidationError(message)} :
             /\ heap' = IF r.ok THEN Append(heap, r.exc) ELSE heap
             /\ last' = [op |-> "ValidationError", message |-> message,
                         ok |-> r.ok, exc |-> r.exc]
    /\ UNCHANGED <<schemes, regLog>>

NextErrors == NewError \/ Continue

SpecErrors == Init /\ [][NextErrors]_vars

LastIsError == last.op = "ValidationError"

\* C27: ValidationError(m), for m a string, a ValidationError of any depth
\* of wrapping, or a mapping whose values are strings or ValidationErrors of
\* either form, raises nothing else, carries exactly one of message and
\* error_dict and holds no ValidationError: a wrapped error yields its
\* message or an equal copy of its dictionary, and a mapping yields its keys
\* with every string kept and every ValidationError replaced by a string.
C27_ErrorWellFormed ==
    LastIsError
    => /\ last.ok
       /\ IsValidationError(last.exc)
       /\ last.exc.has_message # last.exc.has_error_dict
       /\ last.exc.has_message => last.exc.message.t = "str"
       /\ last.exc.has_error_dict
             => \A i \in DOMAIN last.exc.error_dict : last.exc.error_dict[i][2].t = "str"
       /\ IsValidationError(last.message)
             => /\ last.exc.has_message = last.message.has_message
                /\ last.exc.message = last.message.message
                /\ last.exc.error_dict = last.message.error_dict
       /\ IsDict(last.message)
             => /\ last.exc.has_error_dict
                /\ DictKeys(last.exc.error_dict) = DictKeys(last.message.items)
                /\ \A i \in DOMAIN last.message.items :
                      LET v == last.message.items[i][2]
                      IN  /\ v.t = "str" => last.exc.error_dict[i][2] = v
                          /\ (IsValidationError(v) /\ v.has_message)
                                => last.exc.error_dict[i][2] = v.message

\* ------------------------------------------------------------------------
\* C28: timeout, key_prefix and version of a cache URL
\* ------------------------------------------------------------------------
PromotedKeys == { <<"t","i","m","e","o","u","t">>, <<"k","e","y","_","p","r","e","f","i","x">>, <<"v","e","r","s","i","o","n">> }

\* the OPTIONS of the last configuration
LastOptions == DictGet(LastConfig, K_OPTIONS).items

\* C28: in the configuration of a cache URL, each of timeout, key_prefix and
\* version whose value in the query is no nested mapping is the top-level
\* TIMEOUT, KEY_PREFIX or VERSION and is not in OPTIONS; one whose value is a
\* nested mapping, and every other query key, is in OPTIONS with its value,
\* and the query puts no top-level key there for it: every query key is in
\* exactly one of the two places.
C28_CachePromotion ==
    (LastIsConfig /\ last.builder.self = "cache")
    => \A k \in Range(DictKeys(InfoBefore.query)) :
          IF k \in PromotedKeys /\ ~IsDict(DictGet(InfoBefore.query, k))
          THEN /\ DictHas(LastConfig, Upper(k))
               /\ DictGet(LastConfig, Upper(k)) = DictGet(InfoBefore.query, k)
               /\ ~DictHas(LastOptions, k)
          ELSE /\ DictHas(LastOptions, k)
               /\ DictGet(LastOptions, k) = DictGet(InfoBefore.query, k)
               /\ (k \in PromotedKeys /\ DictHas(LastConfig, Upper(k)))
                     => DictHas(InfoBefore.fragment, Upper(k))

\* C28 witness: a cache configuration with TIMEOUT and VERSION promoted out
\* of OPTIONS and the nested key x left in OPTIONS
C28_Witness ==
    /\ LastIsConfig /\ last.builder.self = "cache"
    /\ DictHas(InfoBefore.query, <<"t","i","m","e","o","u","t">>)
    /\ DictGet(InfoBefore.query, <<"t","i","m","e","o","u","t">>) = VInt(5)
    /\ DictHas(LastConfig, <<"T","I","M","E","O","U","T">>)
    /\ DictGet(LastConfig, <<"T","I","M","E","O","U","T">>) = VInt(5)
    /\ DictHas(LastConfig, <<"V","E","R","S","I","O","N">>)
    /\ DictKeys(LastOptions) = << <<"x">> >>
    /\ IsDict(DictGet(LastOptions, <<"x">>))

\* ------------------------------------------------------------------------
\* services/database.py: the sqlite transforms
\* ------------------------------------------------------------------------
K_PRAGMA == <<"P","R","A","G","M","A">>

K_init_command == <<"i","n","i","t","_","c","o","m","m","a","n","d">>

RECURSIVE DictUpdate(_, _)
\* {**d, **other}: the keys of d in their order with the values of other
\* where it has them, then the other keys of other
DictUpdate(d, other) ==
    IF other = <<>> THEN d
    ELSE DictUpdate(DictSet(d, other[1][1], other[1][2]), Tail(other))

RECURSIVE PragmaLines(_)
\* "\n".join(f"PRAGMA {key}={value};" for key, value in pragmas.items())
PragmaLines(pragmas) ==
    IF pragmas = <<>> THEN <<>>
    ELSE <<"P","R","A","G","M","A"," ">> \o pragmas[1][1] \o <<"=">> \o PyStr(pragmas[1][2]) \o <<";">>
         \o (IF Len(pragmas) > 1 THEN <<"\n">> \o PragmaLines(Tail(pragmas)) ELSE <<>>)

\* _build_pragma_init_command(pragmas, pragma_overrides) for two item lists
_build_pragma_init_command(pragmas, pragma_overrides) ==
    PragmaLines(DictUpdate(pragmas, pragma_overrides))

\* _sqlite_parse_path(backend, engine, scheme, url, pragmas): the outcome;
\* {**pragmas, **x} raises TypeError when x, the PRAGMA entry popped from the
\* config, is no mapping
_sqlite_parse_path(engine, scheme, url, pragmas) ==
    LET Pragma(config) ==
            LET overrides == DictGetOr(config, K_PRAGMA, VDict(<<>>))
                rest      == DictDel(config, K_PRAGMA)
                Command(init_command) ==
                    IF init_command # <<>>
                    THEN Return(VDict(DictSet(rest, K_OPTIONS,
                                    VDict(DictSet(DictGet(rest, K_OPTIONS).items,
                                                  K_init_command, VStr(init_command))))))
                    ELSE Return(VDict(rest))
            IN  IF ~IsDict(overrides) THEN Raise(OtherError("TypeError"))
                ELSE Command(_build_pragma_init_command(pragmas, overrides.items))
        Adjusted(parsed) ==
            IF Truthy(parsed.hostname)
            THEN [parsed EXCEPT !.path = parsed.hostname.s \o <<":", "/">> \o parsed.path,
                                !.hostname = VStr(<<>>), !.location = VStr(<<>>)]
            ELSE [parsed EXCEPT !.path = <<"/">> \o parsed.path]
        With(p) ==
            IF ~p.ok THEN Raise(OtherError("ValueError"))
            ELSE Pragma(DatabaseConfig(engine, Adjusted(p.info)).items)
    IN  With(ParseUrlString(urlsplit(url), FALSE))

\* sqlite_config_from_url(backend, engine, scheme, url): the outcome
sqlite_config_from_url(engine, scheme, url) ==
    IF url \in {<<"s","q","l","i","t","e",":","/","/",":","m","e","m","o","r","y",":">>, <<"s","q","l","i","t","e",":","/","/">>}
    THEN Return(VDict(<< <<K_ENGINE, VStr(engine)>>, <<K_NAME, VStr(<<":","m","e","m","o","r","y",":">>)>> >>))
    ELSE _sqlite_parse_path(engine, scheme, url, <<>>)

\* the pragmas of sqlite_plus_config_from_url
SqlitePlusPragmas ==
    << <<<<"j","o","u","r","n","a","l","_","m","o","d","e">>, VStr(<<"W","A","L">>)>>,
       <<<<"s","y","n","c","h","r","o","n","o","u","s">>, VStr(<<"N","O","R","M","A","L">>)>>,
       <<<<"t","e","m","p","_","s","t","o","r","e">>, VStr(<<"M","E","M","O","R","Y">>)>>,
       <<<<"m","m","a","p","_","s","i","z","e">>, VStr(<<"1","3","4","2","1","7","7","2","8">>)>>,
       <<<<"j","o","u","r","n","a","l","_","s","i","z","e","_","l","i","m","i","t">>, VStr(<<"2","7","1","0","3","3","6","4">>)>>,
       <<<<"c","a","c","h","e","_","s","i","z","e">>, VStr(<<"2","0","0","0">>)>> >>

\* d.setdefault(k, v) on an item list
DictSetDefault(items, k, v) == IF DictHas(items, k) THEN items ELSE Append(items, <<k, v>>)

\* sqlite_plus_config_from_url(backend, engine, scheme, url): the outcome
sqlite_plus_config_from_url(engine, scheme, url) ==
    LET Defaults(r) ==
            IF r.kind = "raise" THEN r
            ELSE Return(VDict(DictSet(r.value.items, K_OPTIONS,
                     VDict(DictSetDefault(
                               DictSetDefault(DictGet(r.value.items, K_OPTIONS).items,
                                              <<"t","r","a","n","s","a","c","t","i","o","n","_","m","o","d","e">>, VStr(<<"I","M","M","E","D","I","A","T","E">>)),
                               <<"t","i","m","e","o","u","t">>, VInt(5))))))
    IN  Defaults(_sqlite_parse_path(engine, scheme, url, SqlitePlusPragmas))

\* the sqlite registrations of the db registry: scheme, engine, transform
SqliteBuilders ==
    { [scheme |-> <<"s","q","l","i","t","e">>, engine |-> <<"d","j","a","n","g","o",".","d","b",".","b","a","c","k","e","n","d","s",".","s","q","l","i","t","e","3">>,
       transform |-> "sqlite_config_from_url"],
      [scheme |-> <<"s","p","a","t","i","a","l","i","t","e">>, engine |-> <<"d","j","a","n","g","o",".","c","o","n","t","r","i","b",".","g","i","s",".","d","b",".","b","a","c","k","e","n","d","s",".","s","p","a","t","i","a","l","i","t","e">>,
       transform |-> "sqlite_config_from_url"],
      [scheme |-> <<"s","q","l","i","t","e","+">>, engine |-> <<"d","j","a","n","g","o",".","d","b",".","b","a","c","k","e","n","d","s",".","s","q","l","i","t","e","3">>,
       transform |-> "sqlite_plus_config_from_url"] }

\* the URLs after the scheme: a location, a query and a fragment
SqliteLocations == { <<":","/","/">>, <<":","/","/","/","d","b">>, <<":","/","/","C",":","/","a","/","b">> }

SqliteQueries == { <<>>, <<"?","t","i","m","e","o","u","t","=","9","&","P","R","A","G","M","A",".","a","=","1">> }

SqliteFragments ==
    { <<>>,
      <<"#","K","=","2">>,
      <<"#","P","R","A","G","M","A",".","j","o","u","r","n","a","l","_","m","o","d","e","=","D","E","L","E","T","E">>,
      <<"#","P","R","A","G","M","A",".","s","y","n","c","h","r","o","n","o","u","s","=","F","U","L","L","&","P","R","A","G","M","A",".","z","z","=","1","&","K","=","2">>,
      <<"#","P","R","A","G","M","A",".","z","z","=","x","&","P","R","A","G","M","A",".","c","a","c","h","e","_","s","i","z","e","=","4","0","0","0","&","P","R","A","G","M","A",".","z","z","=","y">>,
      <<"#","P","R","A","G","M","A","=","1">> }

\* db.parse(url) of a sqlite, spatialite or sqlite+ URL: the call of the
\* registered transform
ParseSqlite ==
    /\ Idle
    /\ \E b \in SqliteBuilders, l \in SqliteLocations, q \in SqliteQueries,
          f \in SqliteFragments :
          \E url \in {b.scheme \o l \o q \o f} :
             last' = [op |-> "sqlite", builder |-> b, url |-> url,
                      out |-> IF b.transform = "sqlite_plus_config_from_url"
                              THEN sqlite_plus_config_from_url(b.engine, b.scheme, url)
                              ELSE sqlite_config_from_url(b.engine, b.scheme, url)]
    /\ UNCHANGED <<schemes, regLog, heap>>

NextSqlite == ParseSqlite \/ Continue

SpecSqlite == Init /\ [][NextSqlite]_vars

\* ------------------------------------------------------------------------
\* C29: the init_command of the sqlite configurations
\* ------------------------------------------------------------------------
LastIsSqlite == last.op = "sqlite"

\* a file URL that parse_url accepts: not one of the two in-memory spellings
\* of the sqlite scheme
SqliteFileUrl ==
    /\ LastIsSqlite
    /\ ~(last.builder.transform = "sqlite_config_from_url"
         /\ last.url \in {<<"s","q","l","i","t","e",":","/","/",":","m","e","m","o","r","y",":">>, <<"s","q","l","i","t","e",":","/","/">>})
    /\ ParseUrlString(urlsplit(last.url), FALSE).ok

\* the default pragmas of the scheme of the last call
SchemePragmas ==
    IF last.builder.transform = "sqlite_plus_config_from_url" THEN SqlitePlusPragmas ELSE <<>>

\* the PRAGMA.* entries of the fragment of the last URL
FragmentPragmas ==
    LET F(fragment) ==
            IF DictHas(fragment, K_PRAGMA) /\ IsDict(DictGet(fragment, K_PRAGMA))
            THEN DictGet(fragment, K_PRAGMA).items ELSE <<>>
    IN  F(ParseUrlString(urlsplit(last.url), FALSE).info.fragment)

\* the keys of the merged set: the default keys in default order, then the
\* fragment's other keys in fragment order
MergedKeys ==
    DictKeys(SchemePragmas)
    \o SelectSeq(DictKeys(FragmentPragmas), LAMBDA k : ~DictHas(SchemePragmas, k))

\* the line of key k
PragmaLine(k) ==
    <<"P","R","A","G","M","A"," ">> \o k \o <<"=">>
    \o PyStr(IF DictHas(FragmentPragmas, k) THEN DictGet(FragmentPragmas, k)
             ELSE DictGet(SchemePragmas, k))
    \o <<";">>

RECURSIVE JoinNewline(_)
JoinNewline(lines) ==
    IF lines = <<>> THEN <<>>
    ELSE IF Len(lines) = 1 THEN lines[1]
    ELSE lines[1] \o <<"\n">> \o JoinNewline(Tail(lines))

\* C29: for a sqlite, spatialite or sqlite+ file URL the call returns a
\* configuration whose OPTIONS.init_command is the newline-joined list of one
\* 'PRAGMA <key>=<value>;' line per key of the scheme's default pragmas
\* overridden by the fragment's PRAGMA.* entries, the default keys first in
\* default order; init_command is absent when the merged set is empty, and
\* PRAGMA is no top-level key of the configuration.
C29_PragmaInitCommand ==
    SqliteFileUrl =>
        /\ last.out.kind = "return"
        /\ ~DictHas(last.out.value.items, K_PRAGMA)
        /\ DictHas(last.out.value.items, K_OPTIONS)
        /\ LET options == DictGet(last.out.value.items, K_OPTIONS).items
           IN  IF MergedKeys = <<>> THEN ~DictHas(options, K_init_command)
               ELSE /\ DictHas(options, K_init_command)
                    /\ DictGet(options, K_init_command)
                         = VStr(JoinNewline([i \in DOMAIN MergedKeys |-> PragmaLine(MergedKeys[i])]))

====
